---- MODULE Spec2Model ----
(***************************************************************************)
(* Model of the ports routing core (mojo/edk/system/ports/node.cc and      *)
(* message_queue.cc): the per-node port state machine, the WillSend port   *)
(* hand-off, and the distributed proxy-removal protocol.                   *)
(*                                                                         *)
(* Spec      : handlers of Node as atomic steps over two nodes joined by   *)
(*             FIFO channels (the delegate's ForwardMessage) plus the      *)
(*             per-node loopback queue.                                    *)
(* SpecFair  : Spec with weak fairness on event delivery and reader         *)
(*             polling.                                                    *)
(* SpecSend  : threads of one node running SendMessage step by step, with  *)
(*             the port locks and send_with_ports_lock_ explicit.          *)
(***************************************************************************)
EXTENDS Integers, Sequences, FiniteSets, TLC

VARIABLES
  ports,            \* [node -> [PortName -> Port record]]   (Node::ports_)
  chan,             \* [<<from, to>> -> Seq(Message)]  delegate_->ForwardMessage
  local_messages,   \* [node -> Seq(Message)]          Node::local_messages_
  is_delivering,    \* [node -> BOOLEAN]   Node::is_delivering_local_messages_
  nextName,         \* next value of GenerateRandomPortName
  held,             \* [node -> set of PortName] port refs the embedder holds
  sentCount,        \* [end -> Nat] SendMessage calls accepted on a pipe end
  recv,             \* [end -> Seq(payload)] messages returned by GetMessage
  erased,           \* records erased by MaybeRemoveProxy_Locked (history)
  closedEnds,       \* pipe ends on which ClosePort succeeded (history)
  nSends,           \* accepted plain SendMessage calls (bounded)
  nTransfers,       \* accepted SendMessage calls that embed a port (bounded)
  bufClosure,       \* pipe ends whose Buffering record processed ObserveClosure
  aborted,          \* nodes that hit a CHECK failure (OOPS) or a null deref
  th,               \* SpecSend: [thread -> thread record]
  locks,            \* SpecSend: Port::lock, as a set of <<PortName, owner>>
  send_with_ports_lock, \* SpecSend: owner of Node::send_with_ports_lock_
  ports_lock,       \* SpecLock: owner of Node::ports_lock_ (0: free)
  last,             \* SpecApi: the observed call, with the state it found
  nCalls            \* SpecApi: ClosePort, CreateUninitializedPort and
                    \* LostConnectionToNode calls made (bounded)

vars == <<ports, chan, local_messages, is_delivering, nextName, held,
          sentCount, recv, erased, closedEnds, bufClosure, nSends,
          nTransfers, aborted, th, locks, send_with_ports_lock, ports_lock,
          last, nCalls>>

apiVars == <<last, nCalls>>

protoVars == <<ports, chan, local_messages, is_delivering, nextName,
               held, sentCount, recv, erased, closedEnds, bufClosure,
               nSends, nTransfers, aborted>>

threadVars == <<th, locks, send_with_ports_lock, ports_lock>>

----------------------------------------------------------------------------
(* Bounds *)

MaxSends == 2

MaxTransfers == 1

(* Program constants *)

kInitialSequenceNum == 1

kInvalidSequenceNum == 0

Nodes == {1, 2}

Ends == 1 .. 8

PeerEnd(e) == IF e % 2 = 1 THEN e + 1 ELSE e - 1

NoNode == 0

NoName == 0

----------------------------------------------------------------------------
(* Messages (event.h layout: EventHeader, UserEventData, PortDescriptor,   *)
(* ObserveProxyEventData, ObserveProxyAckEventData,                        *)
(* ObserveClosureEventData) as one record shape.                           *)

NoEvent ==
  [proxy_node_name |-> NoNode, proxy_port_name |-> NoName,
   proxy_to_node_name |-> NoNode, proxy_to_port_name |-> NoName]

Message0 ==
  [type |-> "User", port_name |-> NoName, sequence_num |-> 0,
   ports |-> <<>>, descs |-> <<>>, payload |-> <<>>,
   last_sequence_num |-> 0, event |-> NoEvent]

NoDesc ==
  [peer_node_name |-> NoNode, peer_port_name |-> NoName,
   referring_node_name |-> NoNode, referring_port_name |-> NoName,
   next_sequence_num_to_send |-> 0, next_sequence_num_to_receive |-> 0,
   end |-> 0]

\* Node::AllocMessage: a user message with num_ports port slots, header zeroed
AllocMessage(embed, payload) ==
  [Message0 EXCEPT !.ports = embed,
                   !.descs = [i \in 1 .. Len(embed) |-> NoDesc],
                   !.payload = payload]

\* Node::NewInternalMessage_Helper
NewInternalMessage(port_name, type, lsn, event) ==
  [Message0 EXCEPT !.type = type, !.port_name = port_name,
                   !.last_sequence_num = lsn, !.event = event]

----------------------------------------------------------------------------
(* MessageQueue (message_queue.cc): heap_ kept as a sequence ordered by    *)
(* sequence number, next_sequence_num_, signalable_.                       *)

\* width of the queue's sequence numbers: GetSequenceNum returns uint32_t and
\* the constructor takes uint32_t; the width is scaled down, the arithmetic
\* is the code's
SeqBits == 4

SeqModulus == 2 ^ SeqBits

\* GetSequenceNum: the event's 64-bit sequence_num converted to uint32_t
GetSequenceNum(m) == m.sequence_num % SeqModulus

MessageQueue(next_sequence_num) ==
  [heap |-> <<>>, next_sequence_num |-> next_sequence_num % SeqModulus,
   signalable |-> TRUE]

\* operator< of message_queue.cc with push_heap: the least GetSequenceNum
\* is at heap_[0]
RECURSIVE HeapInsert(_, _)
HeapInsert(heap, m) ==
  IF heap = <<>> THEN <<m>>
  ELSE IF GetSequenceNum(m) < GetSequenceNum(Head(heap)) THEN <<m>> \o heap
  ELSE <<Head(heap)>> \o HeapInsert(Tail(heap), m)

\* MessageQueue::HasNextMessage / the test at the top of GetNextMessageIf
QueueHeadReady(q) ==
  q.heap # <<>> /\ GetSequenceNum(Head(q.heap)) = q.next_sequence_num

\* GetNextMessageIf without the comparison of the head with
\* next_sequence_num_
GetNextMessageIf_NoOrderTest(q) ==
  IF q.heap = <<>> THEN <<q, <<>>>>
  ELSE <<[q EXCEPT !.heap = Tail(q.heap),
                   !.next_sequence_num = q.next_sequence_num + 1],
         Head(q.heap)>>

\* MessageQueue::GetNextMessageIf: <<queue', message>>; message = <<>> stands
\* for the reset (null) ScopedMessage. select is "null" (no selector) or the
\* result of selector->Select on heap_[0] ("accept", "reject").
GetNextMessageIfSelect(q, select) ==
  IF ~QueueHeadReady(q) THEN <<q, <<>>>>
  ELSE IF select = "reject" THEN <<q, <<>>>>
  ELSE <<[q EXCEPT !.heap = Tail(q.heap),
                   !.next_sequence_num = q.next_sequence_num + 1],
         Head(q.heap)>>

\* MessageQueue::GetNextMessageIf with a null selector
GetNextMessageIf(q) == GetNextMessageIfSelect(q, "null")

\* MessageQueue::AcceptMessage: <<queue', has_next_message>>
QueueAcceptMessage(q, m) ==
  LET h == HeapInsert(q.heap, m) IN
  <<[q EXCEPT !.heap = h],
    IF ~q.signalable THEN FALSE
    ELSE GetSequenceNum(Head(h)) = q.next_sequence_num>>

----------------------------------------------------------------------------
(* Port (port.h / port.cc)                                                 *)

\* Port::Port(next_sequence_num_to_send, next_sequence_num_to_receive)
NewPort(next_send, next_receive, end) ==
  [state |-> "Uninitialized",
   peer_node_name |-> NoNode, peer_port_name |-> NoName,
   next_sequence_num_to_send |-> next_send,
   last_sequence_num_to_receive |-> 0,
   message_queue |-> MessageQueue(next_receive),
   send_on_proxy_removal |-> <<>>,
   remove_proxy_on_last_message |-> FALSE,
   peer_closed |-> FALSE,
   outgoing_messages |-> <<>>,
   outgoing_ports |-> <<>>,
   user_data |-> 0,      \* the null shared_ptr<UserData>
   end |-> end,          \* history: which pipe end this record carries
   qin |-> 0,            \* history: messages accepted into message_queue
   qread |-> 0,          \* history: messages returned to the embedder
   qfwd |-> 0,           \* history: messages forwarded to the peer
   closure_first |-> 0,  \* history: queue cursor when closure was observed
   closure_read |-> 0]   \* history: qread when closure was observed

\* CanAcceptMoreMessages comparing with next_sequence_num instead of
\* next_sequence_num - 1
CanAcceptMoreMessages_OffByOne(port) ==
  LET next_sequence_num == port.message_queue.next_sequence_num IN
  IF port.peer_closed \/ port.remove_proxy_on_last_message
    THEN ~(port.last_sequence_num_to_receive = next_sequence_num)
    ELSE TRUE

CanAcceptMoreMessages(port) ==
  LET next_sequence_num == port.message_queue.next_sequence_num IN
  IF port.peer_closed \/ port.remove_proxy_on_last_message
    THEN ~(port.last_sequence_num_to_receive = next_sequence_num - 1)
    ELSE TRUE

----------------------------------------------------------------------------
(* The state a handler works on, threaded through the operators below.      *)
(* rv is the handler's return code; notify collects PortStatusChanged.     *)

World ==
  [ports |-> ports, chan |-> chan, nextName |-> nextName, erased |-> erased,
   closedEnds |-> closedEnds, bufClosure |-> bufClosure, aborted |-> aborted,
   notify |-> {}, rv |-> "OK"]

\* Node::GetPort(name) != nullptr
HasPort(w, n, pn) == pn \in DOMAIN w.ports[n]

\* write-back of a locked Port record that is in the map
SetPort(w, n, pn, rec) ==
  [w EXCEPT !.ports[n] =
     [x \in (DOMAIN w.ports[n]) \cup {pn} |->
        IF x = pn THEN rec ELSE w.ports[n][x]]]

\* Node::AddPortWithName: OOPS(ERROR_PORT_EXISTS) on a name collision
AddPortWithName(w, n, pn, rec) ==
  IF HasPort(w, n, pn)
    THEN [w EXCEPT !.rv = "ERROR_PORT_EXISTS", !.aborted = @ \cup {n}]
    ELSE SetPort(w, n, pn, rec)

\* Node::ErasePort
ErasePort(w, n, pn) ==
  [w EXCEPT !.ports[n] = [x \in (DOMAIN w.ports[n]) \ {pn} |-> w.ports[n][x]]]

\* delegate_->ForwardMessage(node, message): FIFO per (sender, receiver);
\* NodeController::ForwardMessage queues messages for the local node too.
ForwardMessage(w, from, to, m) ==
  [w EXCEPT !.chan[<<from, to>>] = Append(@, m)]

\* OOPS(x): DebugError runs CHECK(false)
Oops(w, n, code) == [w EXCEPT !.rv = code, !.aborted = @ \cup {n}]

----------------------------------------------------------------------------
(* WillSend: Node::WillSendPort_Locked and Node::WillSendMessage_Locked     *)

\* the PortDescriptor written by WillSendPort_Locked
PortDescriptor(port, name_, local_port_name) ==
  [peer_node_name |-> port.peer_node_name,
   peer_port_name |-> port.peer_port_name,
   referring_node_name |-> name_,
   referring_port_name |-> local_port_name,
   next_sequence_num_to_send |-> port.next_sequence_num_to_send,
   next_sequence_num_to_receive |-> port.message_queue.next_sequence_num,
   end |-> port.end]

\* the rewrite of the local record by WillSendPort_Locked
WillSendPortRecord(port, to_node_name, new_port_name) ==
  [port EXCEPT !.state = "Buffering",
               !.peer_node_name = to_node_name,
               !.peer_port_name = new_port_name]

\* Node::WillSendPort_Locked on slot i of the message
WillSendPort_Locked(w, n, to_node_name, m, i) ==
  LET local_port_name == m.ports[i]
      port == w.ports[n][local_port_name]
      new_port_name == w.nextName
      w1 == SetPort([w EXCEPT !.nextName = @ + 1], n, local_port_name,
                    WillSendPortRecord(port, to_node_name, new_port_name))
  IN [w |-> w1,
      m |-> [m EXCEPT !.ports[i] = new_port_name,
                      !.descs[i] = PortDescriptor(port, n, local_port_name)]]

RECURSIVE WillSendPorts(_, _, _, _, _)
WillSendPorts(w, n, to_node_name, m, i) ==
  IF i > Len(m.ports) THEN [w |-> w, m |-> m]
  ELSE LET r == WillSendPort_Locked(w, n, to_node_name, m, i)
       IN WillSendPorts(r.w, n, to_node_name, r.m, i + 1)

\* the check of one embedded port without the test of its state
TakeError_NoStateTest(portsOfNode, port, name) ==
  IF name \notin DOMAIN portsOfNode THEN "NULL_DEREF"
  ELSE IF name = port.peer_port_name THEN "ERROR_PORT_CANNOT_SEND_PEER"
  ELSE "OK"

\* the check of one embedded port inside the send_with_ports_lock_ section
TakeError(portsOfNode, port, name) ==
  IF name \notin DOMAIN portsOfNode THEN "NULL_DEREF"
  ELSE IF portsOfNode[name].state # "Receiving"
    THEN "ERROR_PORT_STATE_UNEXPECTED"
  ELSE IF name = port.peer_port_name THEN "ERROR_PORT_CANNOT_SEND_PEER"
  ELSE "OK"

\* index of the first embedded port that cannot be taken, 0 if none
FirstBadPort(portsOfNode, port, m) ==
  LET bad == {i \in 1 .. Len(m.ports) :
                TakeError(portsOfNode, port, m.ports[i]) # "OK"}
  IN IF bad = {} THEN 0 ELSE CHOOSE i \in bad : \A j \in bad : i <= j

\* the stamp at the top of WillSendMessage_Locked: <<port', message'>>
StampMessage(port, m) ==
  IF m.sequence_num = 0
    THEN <<[port EXCEPT !.next_sequence_num_to_send = @ + 1],
           [m EXCEPT !.sequence_num = port.next_sequence_num_to_send]>>
    ELSE <<port, m>>

\* "Backpedal on the sequence number" on the error path
Backpedal(port, m) ==
  [port EXCEPT !.next_sequence_num_to_send = @ - 1]

\* Node::WillSendMessage_Locked(port, port_name, message, ports_taken)
\* as one step (the port locks it takes are explicit in SpecSend).
WillSendMessage_Locked(w, n, pn, m) ==
  LET st == StampMessage(w.ports[n][pn], m)
      port1 == st[1]
      m1 == st[2]
      w1 == SetPort(w, n, pn, port1)
      bad == FirstBadPort(w1.ports[n], port1, m1)
  IN IF bad # 0
       THEN LET err == TakeError(w1.ports[n], port1, m1.ports[bad]) IN
            IF err = "NULL_DEREF"
              THEN [w |-> [w1 EXCEPT !.rv = err, !.aborted = @ \cup {n}],
                    m |-> m1]
              ELSE [w |-> [SetPort(w1, n, pn, Backpedal(port1, m))
                             EXCEPT !.rv = err],
                    m |-> m1]
       ELSE LET r == WillSendPorts(w1, n, port1.peer_node_name, m1, 1)
            IN [w |-> r.w,
                m |-> [r.m EXCEPT !.port_name = port1.peer_port_name]]

----------------------------------------------------------------------------
(* Proxy forwarding and removal                                            *)

\* Node::ForwardMessages_Locked
RECURSIVE ForwardMessages_Locked(_, _, _)
ForwardMessages_Locked(w, n, pn) ==
  LET port == w.ports[n][pn]
      g == GetNextMessageIf(port.message_queue)
      \* s: what WillSendMessage_Locked returned for the message taken
      Sent(s) ==
        IF s.w.rv # "OK" THEN s.w
        ELSE ForwardMessages_Locked(
               ForwardMessage(
                 SetPort(s.w, n, pn,
                         [s.w.ports[n][pn] EXCEPT !.qfwd = @ + 1]),
                 n, s.w.ports[n][pn].peer_node_name, s.m),
               n, pn)
  IN IF g[2] = <<>> THEN w
     ELSE Sent(WillSendMessage_Locked(
                 SetPort(w, n, pn, [port EXCEPT !.message_queue = g[1]]),
                 n, pn, g[2]))

\* Node::InitiateProxyRemoval_Locked
InitiateProxyRemoval_Locked(w, n, pn) ==
  LET port == w.ports[n][pn]
      data == [proxy_node_name |-> n, proxy_port_name |-> pn,
               proxy_to_node_name |-> port.peer_node_name,
               proxy_to_port_name |-> port.peer_port_name]
  IN ForwardMessage(w, n, port.peer_node_name,
       NewInternalMessage(port.peer_port_name, "ObserveProxy", 0, data))

\* MaybeRemoveProxy_Locked that erases the record and forwards nothing
MaybeRemoveProxy_Locked_Silent(w, n, pn) ==
  LET port == w.ports[n][pn] IN
  IF ~port.remove_proxy_on_last_message THEN w
  ELSE IF ~CanAcceptMoreMessages(port)
    THEN [ErasePort(w, n, pn) EXCEPT
            !.erased = @ \cup {[node |-> n, name |-> pn, port |-> port]}]
  ELSE w

\* MaybeRemoveProxy_Locked erasing the proxy whether or not removal was armed
\* and the last expected message has gone through
MaybeRemoveProxy_Locked_Untested(w, n, pn) ==
  LET port == w.ports[n][pn]
      w1 == [ErasePort(w, n, pn) EXCEPT
               !.erased = @ \cup {[node |-> n, name |-> pn, port |-> port]}]
  IN IF port.send_on_proxy_removal # <<>>
       THEN ForwardMessage(w1, n, port.send_on_proxy_removal[1],
                           port.send_on_proxy_removal[2])
       ELSE w1

\* Node::MaybeRemoveProxy_Locked
MaybeRemoveProxy_Locked(w, n, pn) ==
  LET port == w.ports[n][pn] IN
  IF ~port.remove_proxy_on_last_message THEN w
  ELSE IF ~CanAcceptMoreMessages(port)
    THEN LET w1 == [ErasePort(w, n, pn) EXCEPT
                      !.erased = @ \cup {[node |-> n, name |-> pn,
                                          port |-> port]}]
         IN IF port.send_on_proxy_removal # <<>>
              THEN ForwardMessage(w1, n, port.send_on_proxy_removal[1],
                                  port.send_on_proxy_removal[2])
              ELSE w1
  ELSE w

----------------------------------------------------------------------------
(* ClosePort and the event handlers                                        *)

\* the sequence number of the next message instead of the last one sent
LastSequenceNumSent_Next(port) == port.next_sequence_num_to_send

\* last_sequence_num carried by ObserveClosure (ClosePort) and by
\* ObserveProxyAck (OnObserveProxy)
LastSequenceNumSent(port) == port.next_sequence_num_to_send - 1

\* Node::ClosePort
ClosePort(w, n, pn) ==
  LET port == w.ports[n][pn] IN
  IF port.state # "Receiving"
    THEN [w EXCEPT !.rv = "ERROR_PORT_STATE_UNEXPECTED"]
    ELSE LET w1 == SetPort(w, n, pn, [port EXCEPT !.state = "Closed"])
             w2 == ForwardMessage(w1, n, port.peer_node_name,
                     NewInternalMessage(port.peer_port_name, "ObserveClosure",
                                        LastSequenceNumSent(port), NoEvent))
         IN [ErasePort(w2, n, pn) EXCEPT !.closedEnds = @ \cup {port.end}]

\* AcceptPort that takes the referring port for the peer of the new port
AcceptPort_PeerIsReferrer(w, n, port_name, desc) ==
  LET port == [NewPort(desc.next_sequence_num_to_send,
                       desc.next_sequence_num_to_receive, desc.end)
                 EXCEPT !.state = "Receiving",
                        !.peer_node_name = desc.referring_node_name,
                        !.peer_port_name = desc.referring_port_name,
                        !.message_queue.signalable = FALSE]
      w1 == AddPortWithName(w, n, port_name, port)
  IN IF w1.rv # "OK" THEN w1
     ELSE ForwardMessage(w1, n, desc.referring_node_name,
            NewInternalMessage(desc.referring_port_name, "PortAccepted",
                               0, NoEvent))

\* Node::AcceptPort
AcceptPort(w, n, port_name, desc) ==
  LET port == [NewPort(desc.next_sequence_num_to_send,
                       desc.next_sequence_num_to_receive, desc.end)
                 EXCEPT !.state = "Receiving",
                        !.peer_node_name = desc.peer_node_name,
                        !.peer_port_name = desc.peer_port_name,
                        !.message_queue.signalable = FALSE]
      w1 == AddPortWithName(w, n, port_name, port)
  IN IF w1.rv # "OK" THEN w1
     ELSE ForwardMessage(w1, n, desc.referring_node_name,
            NewInternalMessage(desc.referring_port_name, "PortAccepted",
                               0, NoEvent))

RECURSIVE AcceptPorts(_, _, _, _)
AcceptPorts(w, n, m, i) ==
  IF i > Len(m.ports) THEN w
  ELSE LET w1 == AcceptPort(w, n, m.ports[i], m.descs[i])
       IN IF w1.rv # "OK" THEN w1 ELSE AcceptPorts(w1, n, m, i + 1)

\* OnUserMessage that leaves the ports of a refused message open
CloseAcceptedPorts_None(w, n, m, i) == w

\* the loop of OnUserMessage that closes the ports of a rejected message
RECURSIVE CloseAcceptedPorts(_, _, _, _)
CloseAcceptedPorts(w, n, m, i) ==
  IF i > Len(m.ports) THEN w
  ELSE IF HasPort(w, n, m.ports[i])
    THEN CloseAcceptedPorts([ClosePort(w, n, m.ports[i]) EXCEPT !.rv = "OK"],
                            n, m, i + 1)
    ELSE CloseAcceptedPorts(w, n, m, i + 1)

\* Node::OnUserMessage
OnUserMessage(w, n, m) ==
  LET port_name == m.port_name
      found == HasPort(w, n, port_name)
      \* w3: what ForwardMessages_Locked returned
      AfterForward(w3) ==
        IF w3.rv # "OK" THEN w3
        ELSE MaybeRemoveProxy_Locked(w3, n, port_name)
      \* w2: the message is in the queue of the port
      Queued(w2, state, has_next_message) ==
        IF state = "Buffering" THEN w2
        ELSE IF state = "Proxying"
          THEN AfterForward(ForwardMessages_Locked(w2, n, port_name))
        ELSE IF has_next_message
          THEN [w2 EXCEPT !.notify = @ \cup {<<n, port_name>>}]
        ELSE w2
      \* w1: the ports of the message are bound to the node
      Bound(w1) ==
        IF w1.rv # "OK" THEN w1
        ELSE IF found /\ CanAcceptMoreMessages(w1.ports[n][port_name])
          THEN LET port == w1.ports[n][port_name]
                   a == QueueAcceptMessage(port.message_queue, m)
               IN Queued(SetPort(w1, n, port_name,
                           [port EXCEPT !.message_queue = a[1],
                                        !.qin = @ + 1]),
                         port.state, a[2])
          ELSE CloseAcceptedPorts(w1, n, m, 1)
  IN Bound(AcceptPorts(w, n, m, 1))

\* OnPortAccepted without the flush of the messages buffered meanwhile
OnPortAccepted_NoFlush(w, n, port_name) ==
  IF ~HasPort(w, n, port_name) THEN Oops(w, n, "ERROR_PORT_UNKNOWN")
  ELSE LET port == w.ports[n][port_name] IN
       IF port.state # "Buffering"
         THEN Oops(w, n, "ERROR_PORT_STATE_UNEXPECTED")
         ELSE LET w1 == SetPort(w, n, port_name,
                                [port EXCEPT !.state = "Proxying"])
              IN IF port.remove_proxy_on_last_message
                   THEN MaybeRemoveProxy_Locked(w1, n, port_name)
                   ELSE InitiateProxyRemoval_Locked(w1, n, port_name)

\* OnPortAccepted that asks to be bypassed even when the closure of the peer
\* has armed the removal
OnPortAccepted_AlwaysObserve(w, n, port_name) ==
  IF ~HasPort(w, n, port_name) THEN Oops(w, n, "ERROR_PORT_UNKNOWN")
  ELSE LET port == w.ports[n][port_name] IN
       IF port.state # "Buffering"
         THEN Oops(w, n, "ERROR_PORT_STATE_UNEXPECTED")
         ELSE LET AfterForward(w2) ==
                    IF w2.rv # "OK" THEN w2
                    ELSE InitiateProxyRemoval_Locked(w2, n, port_name)
              IN AfterForward(ForwardMessages_Locked(
                             SetPort(w, n, port_name,
                                     [port EXCEPT !.state = "Proxying"]),
                             n, port_name))

\* Node::OnPortAccepted
OnPortAccepted(w, n, port_name) ==
  IF ~HasPort(w, n, port_name) THEN Oops(w, n, "ERROR_PORT_UNKNOWN")
  ELSE LET port == w.ports[n][port_name] IN
       IF port.state # "Buffering"
         THEN Oops(w, n, "ERROR_PORT_STATE_UNEXPECTED")
         ELSE LET \* w2: what ForwardMessages_Locked returned
                  AfterForward(w2) ==
                    IF w2.rv # "OK" THEN w2
                    ELSE IF w2.ports[n][port_name].remove_proxy_on_last_message
                      THEN MaybeRemoveProxy_Locked(w2, n, port_name)
                      ELSE InitiateProxyRemoval_Locked(w2, n, port_name)
              IN AfterForward(ForwardMessages_Locked(
                             SetPort(w, n, port_name,
                                     [port EXCEPT !.state = "Proxying"]),
                             n, port_name))

\* OnObserveProxy without the comparison of the proxy with the peer of the
\* port: a Receiving port follows every ObserveProxy it is handed
OnObserveProxy_AnyProxy(w, n, port_name, event) ==
  IF ~HasPort(w, n, port_name) THEN w
  ELSE LET port == w.ports[n][port_name] IN
       IF port.state = "Receiving"
         THEN ForwardMessage(
                SetPort(w, n, port_name,
                  [port EXCEPT
                     !.peer_node_name = event.proxy_to_node_name,
                     !.peer_port_name = event.proxy_to_port_name]),
                n, event.proxy_node_name,
                NewInternalMessage(event.proxy_port_name,
                  "ObserveProxyAck", LastSequenceNumSent(port),
                  NoEvent))
         ELSE SetPort(w, n, port_name,
                [port EXCEPT !.send_on_proxy_removal =
                   <<event.proxy_node_name,
                     NewInternalMessage(event.proxy_port_name,
                       "ObserveProxyAck", kInvalidSequenceNum,
                       NoEvent)>>])

\* Node::OnObserveProxy
OnObserveProxy(w, n, port_name, event) ==
  IF ~HasPort(w, n, port_name) THEN w
  ELSE LET port == w.ports[n][port_name] IN
       IF port.peer_node_name = event.proxy_node_name
          /\ port.peer_port_name = event.proxy_port_name
         THEN IF port.state = "Receiving"
                THEN ForwardMessage(
                       SetPort(w, n, port_name,
                         [port EXCEPT
                            !.peer_node_name = event.proxy_to_node_name,
                            !.peer_port_name = event.proxy_to_port_name]),
                       n, event.proxy_node_name,
                       NewInternalMessage(event.proxy_port_name,
                         "ObserveProxyAck", LastSequenceNumSent(port),
                         NoEvent))
                ELSE SetPort(w, n, port_name,
                       [port EXCEPT !.send_on_proxy_removal =
                          <<event.proxy_node_name,
                            NewInternalMessage(event.proxy_port_name,
                              "ObserveProxyAck", kInvalidSequenceNum,
                              NoEvent)>>])
         ELSE ForwardMessage(w, n, port.peer_node_name,
                NewInternalMessage(port.peer_port_name, "ObserveProxy",
                                   0, event))

\* OnObserveProxyAck that arms the removal and leaves the evaluation of
\* MaybeRemoveProxy_Locked to the next user message
OnObserveProxyAck_ArmOnly(w, n, port_name, last_sequence_num) ==
  IF ~HasPort(w, n, port_name) THEN [w EXCEPT !.rv = "ERROR_PORT_UNKNOWN"]
  ELSE LET port == w.ports[n][port_name] IN
       IF port.state # "Proxying"
         THEN Oops(w, n, "ERROR_PORT_STATE_UNEXPECTED")
       ELSE IF last_sequence_num = kInvalidSequenceNum
         THEN InitiateProxyRemoval_Locked(w, n, port_name)
       ELSE SetPort(w, n, port_name,
              [port EXCEPT !.remove_proxy_on_last_message = TRUE,
                           !.last_sequence_num_to_receive =
                              last_sequence_num])

\* Node::OnObserveProxyAck
OnObserveProxyAck(w, n, port_name, last_sequence_num) ==
  IF ~HasPort(w, n, port_name) THEN [w EXCEPT !.rv = "ERROR_PORT_UNKNOWN"]
  ELSE LET port == w.ports[n][port_name] IN
       IF port.state # "Proxying"
         THEN Oops(w, n, "ERROR_PORT_STATE_UNEXPECTED")
       ELSE IF last_sequence_num = kInvalidSequenceNum
         THEN InitiateProxyRemoval_Locked(w, n, port_name)
       ELSE MaybeRemoveProxy_Locked(
              SetPort(w, n, port_name,
                [port EXCEPT !.remove_proxy_on_last_message = TRUE,
                             !.last_sequence_num_to_receive =
                                last_sequence_num]),
              n, port_name)

\* OnObserveClosure that removes a proxy at once, whether or not the
\* messages up to last_sequence_num have been forwarded
OnObserveClosure_RemoveNow(w, n, port_name, last_sequence_num) ==
  IF ~HasPort(w, n, port_name) THEN w
  ELSE LET port == w.ports[n][port_name]
           port1 == [port EXCEPT
                       !.peer_closed = TRUE,
                       !.last_sequence_num_to_receive = last_sequence_num,
                       !.closure_first = port.message_queue.next_sequence_num,
                       !.closure_read = port.qread]
       IN IF port.state = "Receiving"
            THEN [SetPort(w, n, port_name, port1)
                    EXCEPT !.notify = @ \cup {<<n, port_name>>}]
            ELSE LET port2 == [port1 EXCEPT
                                 !.remove_proxy_on_last_message = TRUE]
                     w1 == [SetPort(w, n, port_name, port2) EXCEPT
                              !.bufClosure =
                                 IF port.state = "Buffering"
                                   THEN @ \cup {port.end} ELSE @]
                 IN IF port.state = "Proxying"
                      THEN ForwardMessage(
                             MaybeRemoveProxy_Locked_Untested(w1, n, port_name),
                             n, port.peer_node_name,
                             NewInternalMessage(port.peer_port_name,
                               "ObserveClosure", last_sequence_num, NoEvent))
                      ELSE w1

\* Node::OnObserveClosure
OnObserveClosure(w, n, port_name, last_sequence_num) ==
  IF ~HasPort(w, n, port_name) THEN w
  ELSE LET port == w.ports[n][port_name]
           port1 == [port EXCEPT
                       !.peer_closed = TRUE,
                       !.last_sequence_num_to_receive = last_sequence_num,
                       !.closure_first = port.message_queue.next_sequence_num,
                       !.closure_read = port.qread]
       IN IF port.state = "Receiving"
            THEN [SetPort(w, n, port_name, port1)
                    EXCEPT !.notify = @ \cup {<<n, port_name>>}]
            ELSE LET port2 == [port1 EXCEPT
                                 !.remove_proxy_on_last_message = TRUE]
                     w1 == [SetPort(w, n, port_name, port2) EXCEPT
                              !.bufClosure =
                                 IF port.state = "Buffering"
                                   THEN @ \cup {port.end} ELSE @]
                 IN IF port.state = "Proxying"
                      THEN ForwardMessage(
                             MaybeRemoveProxy_Locked(w1, n, port_name),
                             n, port.peer_node_name,
                             NewInternalMessage(port.peer_port_name,
                               "ObserveClosure", last_sequence_num, NoEvent))
                      ELSE w1

\* Node::AcceptMessage
AcceptMessage(w, n, m) ==
  IF m.type = "User" THEN OnUserMessage(w, n, m)
  ELSE IF m.type = "PortAccepted" THEN OnPortAccepted(w, n, m.port_name)
  ELSE IF m.type = "ObserveProxy"
    THEN OnObserveProxy(w, n, m.port_name, m.event)
  ELSE IF m.type = "ObserveProxyAck"
    THEN OnObserveProxyAck(w, n, m.port_name, m.last_sequence_num)
  ELSE IF m.type = "ObserveClosure"
    THEN OnObserveClosure(w, n, m.port_name, m.last_sequence_num)
  ELSE Oops(w, n, "ERROR_NOT_IMPLEMENTED")

----------------------------------------------------------------------------
(* Spec: the operations of Node as steps                                   *)

\* Pipe ends 1 and 2 are the two ends of the data pipe, ends 3 and 4 the two
\* ends of the carrier pipe that joins the nodes; ends 5 to 8 are the pipes
\* that only SpecSend uses.
DataEnds == {1, 2}

CarrierEnds == {3, 4}

\* a Receiving port made by CreatePortPair, or by CreateUninitializedPort
\* followed by InitializePort
InitPort(peer_node, peer_port, end) ==
  [NewPort(kInitialSequenceNum, kInitialSequenceNum, end)
     EXCEPT !.state = "Receiving",
            !.peer_node_name = peer_node,
            !.peer_port_name = peer_port]

\* no call of the embedder is under observation
NoCall == [op |-> "none"]

ThreadsIdle ==
  /\ th = <<>>
  /\ locks = {}
  /\ send_with_ports_lock = 0
  /\ ports_lock = 0

\* Two nodes and two pipes, each made by CreateUninitializedPort on either
\* node and joined by InitializePort: the data pipe (port 1 on node 1, port 2
\* on node 2) and the carrier pipe (port 3 on node 1, port 4 on node 2).
Init ==
  /\ ports = [n \in Nodes |->
       IF n = 1
         THEN (1 :> InitPort(2, 2, 1)) @@ (3 :> InitPort(2, 4, 3))
         ELSE (2 :> InitPort(1, 1, 2)) @@ (4 :> InitPort(1, 3, 4))]
  /\ chan = [c \in Nodes \X Nodes |-> <<>>]
  /\ local_messages = [n \in Nodes |-> <<>>]
  /\ is_delivering = [n \in Nodes |-> FALSE]
  /\ nextName = 5
  /\ held = [n \in Nodes |-> IF n = 1 THEN {1, 3} ELSE {2, 4}]
  /\ sentCount = [e \in Ends |-> 0]
  /\ recv = [e \in Ends |-> <<>>]
  /\ erased = {}
  /\ closedEnds = {}
  /\ bufClosure = {}
  /\ nSends = 0
  /\ nTransfers = 0
  /\ aborted = {}
  /\ ThreadsIdle
  /\ last = NoCall
  /\ nCalls = 0

\* the handler's result becomes the next state
Commit(w) ==
  /\ ports' = w.ports
  /\ chan' = w.chan
  /\ nextName' = w.nextName
  /\ erased' = w.erased
  /\ closedEnds' = w.closedEnds
  /\ bufClosure' = w.bufClosure
  /\ aborted' = w.aborted

SeqToSet(sq) == {sq[i] : i \in 1 .. Len(sq)}

\* SendMessage without the test for a message that embeds the sending port
SendPrecheck_NoSelfTest(port, pn, embed) ==
  IF port.state \notin {"Receiving", "Uninitialized"}
    THEN "ERROR_PORT_STATE_UNEXPECTED"
  ELSE IF port.state = "Receiving" /\ port.peer_closed
    THEN "ERROR_PORT_PEER_CLOSED"
  ELSE "OK"

\* SendMessage without the test of peer_closed
SendPrecheck_NoPeerClosedTest(port, pn, embed) ==
  IF pn \in SeqToSet(embed) THEN "ERROR_PORT_CANNOT_SEND_SELF"
  ELSE IF port.state \notin {"Receiving", "Uninitialized"}
    THEN "ERROR_PORT_STATE_UNEXPECTED"
  ELSE "OK"

\* the return code of the checks SendMessage makes before WillSend
SendPrecheck(port, pn, embed) ==
  IF pn \in SeqToSet(embed) THEN "ERROR_PORT_CANNOT_SEND_SELF"
  ELSE IF port.state \notin {"Receiving", "Uninitialized"}
    THEN "ERROR_PORT_STATE_UNEXPECTED"
  ELSE IF port.state = "Receiving" /\ port.peer_closed
    THEN "ERROR_PORT_PEER_CLOSED"
  ELSE "OK"

\* Node::SendMessage(port_ref, message) up to the hand-off of the message:
\* [w, rv, local] where local is the message appended to local_messages_
\* (<<>> if none).
SendMessageW(w, n, pn, m) ==
  LET port == w.ports[n][pn]
      pre == SendPrecheck(port, pn, m.ports)
      s == WillSendMessage_Locked(w, n, pn, m)
  IN IF pre # "OK" THEN [w |-> [w EXCEPT !.rv = pre], local |-> <<>>]
     ELSE IF s.w.rv # "OK" THEN [w |-> s.w, local |-> <<>>]
     ELSE IF port.state = "Uninitialized"
       THEN [w |-> SetPort(s.w, n, pn,
                     [s.w.ports[n][pn] EXCEPT
                        !.outgoing_messages = Append(@, s.m),
                        !.outgoing_ports = @ \o m.ports]),
             local |-> <<>>]
     ELSE IF port.peer_node_name # n
       THEN [w |-> ForwardMessage(s.w, n, port.peer_node_name, s.m),
             local |-> <<>>]
     ELSE [w |-> s.w, local |-> s.m]

\* the loop of SendMessage that flushes local_messages_, run by the caller
\* that found is_delivering_local_messages_ false: the world, what is left in
\* the queue and the flag at the return
RECURSIVE DrainLocal(_, _, _)
RECURSIVE DrainRest(_, _, _)
\* after one AcceptMessage of the loop: a failure leaves the loop with the
\* rest still queued and is_delivering_local_messages_ still set
DrainRest(w1, n, rest) ==
  IF w1.rv # "OK"
    THEN [w |-> w1, queue |-> rest, delivering |-> TRUE]
    ELSE DrainLocal(w1, n, rest)

DrainLocal(w, n, queue) ==
  IF queue = <<>> THEN [w |-> w, queue |-> <<>>, delivering |-> FALSE]
  ELSE DrainRest(AcceptMessage(w, n, Head(queue)), n, Tail(queue))

\* what SendMessage leaves behind: r is the outcome of the send itself, the
\* loopback queue is drained unless an outer call on this node is draining
SendMessageDone(n, r) ==
  IF r.local = <<>>
    THEN [w |-> r.w, queue |-> local_messages[n],
          delivering |-> is_delivering[n]]
  ELSE IF is_delivering[n]
    THEN [w |-> r.w, queue |-> Append(local_messages[n], r.local),
          delivering |-> TRUE]
  ELSE DrainLocal(r.w, n, Append(local_messages[n], r.local))

CommitSend(n, d) ==
  /\ Commit(d.w)
  /\ local_messages' = [local_messages EXCEPT ![n] = d.queue]
  /\ is_delivering' = [is_delivering EXCEPT ![n] = d.delivering]

SendMessageCount(n, port, embed, r) ==
  /\ IF r.w.rv # "OK"
       THEN UNCHANGED <<held, sentCount, nSends, nTransfers>>
       ELSE /\ held' = [held EXCEPT ![n] = @ \ SeqToSet(embed)]
            /\ sentCount' = [sentCount EXCEPT ![port.end] = @ + 1]
            /\ nSends' = IF embed = <<>> THEN nSends + 1 ELSE nSends
            /\ nTransfers' =
                 IF embed = <<>> THEN nTransfers ELSE nTransfers + 1
  /\ CommitSend(n, SendMessageDone(n, r))

\* The embedder's use of SendMessage: payload messages on the data pipe, and
\* messages that carry one held data-pipe port on the carrier pipe.
SendMessageUpTo(n, pn, embed, transfers) ==
  /\ n \notin aborted
  /\ pn \in held[n]
  /\ IF embed = <<>>
       THEN nSends < MaxSends /\ ports[n][pn].end \in DataEnds
       ELSE /\ nTransfers < transfers
            /\ ports[n][pn].end \in CarrierEnds
            /\ embed[1] \in held[n]
            /\ ports[n][embed[1]].end \in DataEnds
  /\ SendMessageCount(n, ports[n][pn], embed,
       SendMessageW(World, n, pn,
         AllocMessage(embed, <<ports[n][pn].end,
                                sentCount[ports[n][pn].end] + 1>>)))
  /\ UNCHANGED recv
  /\ UNCHANGED <<threadVars, apiVars>>

SendMessage(n, pn, embed) == SendMessageUpTo(n, pn, embed, MaxTransfers)

\* the delegate hands the oldest message of a channel to Node::AcceptMessage
Deliver(from, to) ==
  /\ to \notin aborted
  /\ chan[<<from, to>>] # <<>>
  /\ LET m == Head(chan[<<from, to>>])
         w == AcceptMessage(
                [World EXCEPT !.chan[<<from, to>>] = Tail(@)], to, m)
     IN Commit(w)
  /\ UNCHANGED <<local_messages, is_delivering, held, sentCount, recv,
                 nSends, nTransfers>>
  /\ UNCHANGED <<threadVars, apiVars>>

\* GetMessageIf's loop that makes the ports of a returned message signalable
RECURSIVE SignalPorts(_, _, _, _)
SignalPorts(w, n, m, i) ==
  IF i > Len(m.ports) THEN w
  ELSE IF ~HasPort(w, n, m.ports[i])
    THEN [w EXCEPT !.rv = "NULL_DEREF", !.aborted = @ \cup {n}]
  ELSE SignalPorts(
         SetPort(w, n, m.ports[i],
           [w.ports[n][m.ports[i]] EXCEPT !.message_queue.signalable = TRUE]),
         n, m, i + 1)

\* the return code of a GetMessage that does not look at the state of the port
GetMessageResult_AnyState(port) ==
  IF ~CanAcceptMoreMessages(port) THEN "ERROR_PORT_PEER_CLOSED" ELSE "OK"

\* the return code of Node::GetMessage(port_ref, &message)
GetMessageResult(port) ==
  IF port.state # "Receiving" THEN "ERROR_PORT_STATE_UNEXPECTED"
  ELSE IF ~CanAcceptMoreMessages(port) THEN "ERROR_PORT_PEER_CLOSED"
  ELSE "OK"

\* Node::GetMessageIf with a null selector, on the port of a port_ref
GetMessageIf(w, n, pn) ==
  LET port == w.ports[n][pn]
      rv == GetMessageResult(port)
      g == GetNextMessageIf(port.message_queue)
  IN IF rv # "OK" THEN [w EXCEPT !.rv = rv]
     ELSE IF g[2] = <<>> THEN w
     ELSE SignalPorts(
            SetPort(w, n, pn,
              [port EXCEPT !.message_queue = g[1], !.qread = @ + 1]),
            n, g[2], 1)

\* Node::GetMessage(port_ref, &message)
GetMessage(n, pn) ==
  /\ n \notin aborted
  /\ pn \in held[n]
  /\ LET port == ports[n][pn]
         rv == GetMessageResult(port)
         g == GetNextMessageIf(port.message_queue)
     IN IF rv # "OK" \/ g[2] = <<>>
          THEN UNCHANGED <<ports, aborted, held, recv>>
          ELSE LET w == SignalPorts(
                          SetPort(World, n, pn,
                            [port EXCEPT !.message_queue = g[1],
                                         !.qread = @ + 1]),
                          n, g[2], 1)
               IN /\ ports' = w.ports
                  /\ aborted' = w.aborted
                  /\ held' = [held EXCEPT ![n] = @ \cup SeqToSet(g[2].ports)]
                  /\ recv' = [recv EXCEPT ![port.end] =
                                Append(@, g[2].payload)]
  /\ UNCHANGED <<chan, local_messages, is_delivering, nextName,
                 sentCount, erased, closedEnds, bufClosure, nSends,
                 nTransfers>>
  /\ UNCHANGED <<threadVars, apiVars>>

\* Node::ClosePort(port_ref) called by the embedder on a data-pipe port
UserClosePort(n, pn) ==
  /\ n \notin aborted
  /\ pn \in held[n]
  /\ ports[n][pn].end \in DataEnds
  /\ LET w == ClosePort(World, n, pn)
     IN /\ Commit(w)
        /\ held' = [held EXCEPT ![n] = IF w.rv = "OK" THEN @ \ {pn} ELSE @]
  /\ UNCHANGED <<local_messages, is_delivering, sentCount, recv,
                 nSends, nTransfers>>
  /\ UNCHANGED <<threadVars, apiVars>>

Send == \E n \in Nodes : \E pn \in held[n] :
          \E embed \in {<<>>} \cup {<<q>> : q \in held[n]} :
            SendMessage(n, pn, embed)

Delivery == \E from \in Nodes : \E to \in Nodes : Deliver(from, to)

Read == \E n \in Nodes : \E pn \in held[n] : GetMessage(n, pn)

Close == \E n \in Nodes : \E pn \in held[n] : UserClosePort(n, pn)

Next == Send \/ Delivery \/ Read \/ Close

Spec == Init /\ [][Next]_vars

----------------------------------------------------------------------------
(* Properties of Spec                                                      *)

\* the records in the port maps
Records == {<<n, pn>> \in Nodes \X (1 .. (nextName - 1)) : pn \in DOMAIN ports[n]}

Rec(r) == ports[r[1]][r[2]]

\* no CHECK failure and no null dereference is reached by the embedder's
\* operations of Spec
NoAbort == aborted = {}

\* C1: on every pipe, the messages returned by successful GetMessage calls on
\* one end are a prefix of the messages accepted by SendMessage on the other
\* end: the i-th message read is the i-th message sent (same order, no gap,
\* no duplicate), whatever transfers happened in between.
C1_ReadIsPrefixOfSent ==
  \A e \in Ends :
    /\ Len(recv[e]) <= sentCount[PeerEnd(e)]
    /\ \A i \in 1 .. Len(recv[e]) : recv[e][i] = <<PeerEnd(e), i>>

\* a data-pipe end that was transferred has returned one message before the
\* transfer and one after it
C1_Witness ==
  \E r \in Records :
    /\ r[2] >= 5
    /\ Rec(r).end \in DataEnds
    /\ Rec(r).qread = 1
    /\ Len(recv[Rec(r).end]) = 2

C5_ClosureDrains ==
  \A r \in Records :
    (Rec(r).state = "Receiving" /\ Rec(r).peer_closed) =>
      LET k == Rec(r).last_sequence_num_to_receive
          f == Rec(r).closure_first
          surfaced == Rec(r).qread - Rec(r).closure_read
      IN /\ surfaced <= k - f + 1
         /\ GetMessageResult(Rec(r)) = "ERROR_PORT_PEER_CLOSED" =>
              /\ surfaced = k - f + 1
              /\ Rec(r).message_queue.next_sequence_num = k + 1
              /\ Rec(r).message_queue.heap = <<>>

\* PeerClosed is returned after messages were drained past the closure notice
C5_Witness ==
  \E r \in Records :
    /\ Rec(r).state = "Receiving" /\ Rec(r).peer_closed
    /\ GetMessageResult(Rec(r)) = "ERROR_PORT_PEER_CLOSED"
    /\ Rec(r).qread - Rec(r).closure_read >= 1

\* no event is in flight and no message is left in a loopback queue: nothing more
\* happens to a port unless the embedder calls the node again
Quiescent ==
  /\ \A c \in Nodes \X Nodes : chan[c] = <<>>
  /\ \A n \in Nodes : local_messages[n] = <<>>

----------------------------------------------------------------------------
(* SpecFair: no port is closed and no node is lost; events are delivered    *)
(* and readers poll, each with weak fairness.                               *)

NextFair == Send \/ Delivery \/ Read

\* a channel has an event that its receiver can take
DeliverEnabled(from, to) == to \notin aborted /\ chan[<<from, to>>] # <<>>

\* Weak fairness of each channel, written with the enabling condition of
\* the step: WF_vars(A) is []<>~ENABLED <<A>>_vars \/ []<><<A>>_vars.
SpecFair ==
  /\ Init
  /\ [][NextFair]_vars
  /\ \A c \in Nodes \X Nodes :
       \/ []<>~DeliverEnabled(c[1], c[2])
       \/ []<><<Deliver(c[1], c[2])>>_vars
  /\ WF_vars(Read)

\* C2: with no end closed and no node lost, under fair event delivery and
\* fair reader polling every message accepted by SendMessage on one end of a
\* pipe is eventually returned by GetMessage on the other end: from some
\* point on (sends are finitely many) each end has read all its peer sent.
AllRead == \A e \in Ends : Len(recv[PeerEnd(e)]) = sentCount[e]

C2_SentIsEventuallyRead == <>[]AllRead

\* a message that a proxy forwarded was read on the port made by the transfer
C2_Witness ==
  \E r \in Records :
    /\ r[2] >= 5 /\ Rec(r).end \in DataEnds /\ Rec(r).qread >= 1
    /\ \E e \in erased : e.port.end = Rec(r).end /\ e.port.qfwd >= 1

\* C3: with no port closed, every port that was sent in a message
\* (Buffering, then Proxying) is eventually erased from its node's port map:
\* from some point on (transfers are finitely many) no such record is left.
NoProxyLeft ==
  \A r \in Records : Rec(r).state \notin {"Buffering", "Proxying"}

C3_ProxyEventuallyErased == <>[]NoProxyLeft

----------------------------------------------------------------------------
(* SpecSend: two threads of node 1, one inside Node::SendMessage or        *)
(* Node::OnPortAccepted each, with Port::lock and send_with_ports_lock_     *)
(* explicit. A step is the code between two points where a thread can       *)
(* block on a mutex.                                                        *)

Threads == {1, 2}

MaxPorts == 2

\* Port::lock of the named port is not held
Free(name) == \A l \in locks : l[1] # name

\* ports[i]->lock.lock() / unlock() by the owner
LockPortMutex(ls, name, t) == ls \cup {<<name, t>>}

UnlockPortMutex(ls, name, t) == ls \ {<<name, t>>}

\* the locks of the ports vector taken so far by thread t
TakenLocks(c, t) == {<<c.m.ports[j], t>> : j \in 1 .. (c.i - 1)}

\* the duplicate-free port lists of at most MaxPorts names out of S
RECURSIVE PortLists(_, _)
PortLists(S, k) ==
  IF k = 0 THEN {<<>>}
  ELSE LET shorter == PortLists(S, k - 1)
       IN shorter \cup {Append(l, x) : l \in shorter, x \in S}

DistinctLists(S, k) ==
  {l \in PortLists(S, k) : Cardinality(SeqToSet(l)) = Len(l)}

Thread0 ==
  [kind |-> "send", node |-> 1, port |-> NoName, m |-> Message0,
   pc |-> "start", i |-> 0, j |-> 0, rv |-> "OK", err |-> "OK",
   pre |-> 0,           \* history: next_sequence_num_to_send at the call
   post |-> 0,          \* history: next_sequence_num_to_send at the return
   failed |-> FALSE,    \* history: WillSendMessage_Locked returned an error
   failed_at |-> 0,     \* history: position of the port that failed
   embed |-> <<>>,      \* history: the ports the caller put in the message
   node_name |-> NoNode, \* LostConnectionToNode: the node that is gone
   todo |-> {}]         \* LostConnectionToNode: ports_ entries not yet visited

\* a thread about to call SendMessage(port_ref, message)
SendCall(pn, embed) ==
  [Thread0 EXCEPT !.port = pn, !.m = AllocMessage(embed, <<>>),
                  !.embed = embed]

\* the thread that delivers the PortAccepted event of a Buffering port
AcceptCall(pn) == [Thread0 EXCEPT !.kind = "accept", !.port = pn]

\* Node 1 holds the pair (1, 2), port 3 whose peer is on node 2, port 5 that
\* was sent to node 2 (Buffering, PortAccepted not yet processed) with one
\* message of its old peer in its queue, port 6 that this message embeds
\* (made by AcceptPort when the message arrived), and port 10 whose peer is
\* on node 2. With closed3, port 3 has processed the ObserveClosure of its
\* peer, which sent nothing.
InitSendPorts(closed3) ==
  [n \in Nodes |->
     IF n = 1
       THEN (1 :> InitPort(1, 2, 1)) @@ (2 :> InitPort(1, 1, 2))
            @@ (3 :> [InitPort(2, 4, 3) EXCEPT !.peer_closed = closed3])
            @@ (5 :> [WillSendPortRecord(InitPort(2, 7, 5), 2, 9) EXCEPT
                        !.message_queue.heap =
                           <<[AllocMessage(<<6>>, <<>>) EXCEPT
                                !.port_name = 5, !.sequence_num = 1]>>,
                        !.qin = 1])
            @@ (6 :> [InitPort(2, 8, 7) EXCEPT
                        !.message_queue.signalable = FALSE])
            @@ (10 :> InitPort(2, 11, 3))
       ELSE (7 :> [InitPort(1, 5, 6) EXCEPT
                     !.next_sequence_num_to_send = 2])
            @@ (8 :> InitPort(1, 6, 8))
            @@ (9 :> [InitPort(2, 7, 5) EXCEPT
                        !.message_queue.signalable = FALSE])
            @@ (11 :> InitPort(1, 10, 4))
            @@ (IF closed3 THEN <<>> ELSE (4 :> InitPort(1, 3, 4)))]

Senders == {1, 3}

Embeddable == {1, 2, 3, 6, 10}

Calls ==
  {SendCall(pn, e) : pn \in Senders, e \in DistinctLists(Embeddable, MaxPorts)}
    \cup {AcceptCall(5)}

InitSend ==
  /\ \E closed3 \in BOOLEAN :
       /\ ports = InitSendPorts(closed3)
       /\ held = [n \in Nodes |-> IF n = 1 THEN {1, 2, 3, 6, 10}
                                  ELSE (DOMAIN ports[n]) \ {9}]
  /\ chan = [c \in Nodes \X Nodes |-> <<>>]
  /\ local_messages = [n \in Nodes |-> <<>>]
  /\ is_delivering = [n \in Nodes |-> FALSE]
  /\ nextName = 12
  /\ sentCount = [e \in Ends |-> 0]
  /\ recv = [e \in Ends |-> <<>>]
  /\ erased = {}
  /\ closedEnds = {}
  /\ bufClosure = {}
  /\ nSends = 0
  /\ nTransfers = 0
  /\ aborted = {}
  /\ th \in [Threads -> Calls]
  /\ locks = {}
  /\ send_with_ports_lock = 0
  /\ ports_lock = 0
  /\ last = NoCall
  /\ nCalls = 0

sendUnused == <<held, sentCount, recv, nSends, nTransfers, apiVars>>

\* the thread has a step to take: it is not waiting for a mutex
CanStep(t) ==
  LET c == th[t] IN
  /\ c.node \notin aborted
  /\ CASE c.pc = "start" ->
            IF c.kind = "lost" THEN ports_lock = 0
            ELSE IF c.kind = "accept" THEN ports_lock = 0 /\ Free(c.port)
            ELSE IF c.port \in SeqToSet(c.m.ports) THEN TRUE
            ELSE Free(c.port)
       [] c.pc = "swp" -> send_with_ports_lock = 0
       [] c.pc = "take" ->
            /\ ports_lock = 0
            /\ IF c.m.ports[c.i] \in DOMAIN ports[c.node]
                 THEN Free(c.m.ports[c.i]) ELSE TRUE
       [] c.pc = "unlock" -> TRUE
       [] c.pc = "local" -> TRUE
       [] c.pc = "drain" ->
            IF local_messages[c.node] # <<>>
              THEN /\ ports_lock = 0
                   /\ Free(Head(local_messages[c.node]).port_name)
              ELSE TRUE
       [] c.pc = "visit" -> Free(c.port)
       [] OTHER -> FALSE

\* the result of a step: the world, the thread, the port locks and
\* send_with_ports_lock_
StepResult(w, c, ls, swp) == [w |-> w, c |-> c, locks |-> ls, swp |-> swp]

Returned(c, rv) == [c EXCEPT !.pc = "done", !.rv = rv]

\* ForwardMessages_Locked up to the first queued message that embeds ports:
\* [w, m] with m that message (taken off the queue), or <<>> when the loop
\* ended
RECURSIVE ForwardPlain(_, _, _)
ForwardPlain(w, n, pn) ==
  LET port == w.ports[n][pn]
      g == GetNextMessageIf(port.message_queue)
      w1 == SetPort(w, n, pn, [port EXCEPT !.message_queue = g[1]])
  IN IF g[2] = <<>> THEN [w |-> w, m |-> <<>>]
     ELSE IF g[2].ports # <<>> THEN [w |-> w1, m |-> g[2]]
     ELSE LET s == WillSendMessage_Locked(w1, n, pn, g[2])
              p2 == s.w.ports[n][pn]
              w2 == SetPort(s.w, n, pn, [p2 EXCEPT !.qfwd = @ + 1])
          IN ForwardPlain(ForwardMessage(w2, n, p2.peer_node_name, s.m),
                          n, pn)

\* OnPortAccepted from the top of the loop of ForwardMessages_Locked, the
\* port's lock held: to the next wait for send_with_ports_lock_, or to the
\* return
ForwardNext(w, c, t, ls) ==
  LET n == c.node
      pn == c.port
      r == ForwardPlain(w, n, pn)
  IN IF r.m = <<>>
       THEN StepResult(
              IF r.w.ports[n][pn].remove_proxy_on_last_message
                THEN MaybeRemoveProxy_Locked(r.w, n, pn)
                ELSE InitiateProxyRemoval_Locked(r.w, n, pn),
              Returned(c, "OK"), UnlockPortMutex(ls, pn, t), 0)
       ELSE LET st == StampMessage(r.w.ports[n][pn], r.m)
            IN StepResult(SetPort(r.w, n, pn, st[1]),
                          [c EXCEPT !.m = st[2], !.pc = "swp"], ls, 0)

\* the caller's code after WillSendMessage_Locked returned OK
AfterWillSend(w, c, t, ls) ==
  LET n == c.node
      pn == c.port
      port == w.ports[n][pn]
  IN IF c.kind = "accept"
       THEN ForwardNext(
              ForwardMessage(SetPort(w, n, pn, [port EXCEPT !.qfwd = @ + 1]),
                             n, port.peer_node_name, c.m),
              c, t, ls)
     ELSE IF port.state = "Uninitialized"
       THEN StepResult(SetPort(w, n, pn,
                         [port EXCEPT !.outgoing_messages = Append(@, c.m),
                                      !.outgoing_ports = @ \o c.embed]),
                       Returned(c, "OK"), UnlockPortMutex(ls, pn, t), 0)
     ELSE IF port.peer_node_name # n
       THEN StepResult(ForwardMessage(w, n, port.peer_node_name, c.m),
                       Returned(c, "OK"), UnlockPortMutex(ls, pn, t), 0)
     ELSE StepResult(w, [c EXCEPT !.pc = "local"],
                     UnlockPortMutex(ls, pn, t), 0)

\* the error return of WillSendMessage_Locked and of its caller
FailReturn(w, c, t, ls) ==
  LET n == c.node
      pn == c.port
      port == Backpedal(w.ports[n][pn], c.m)
  IN StepResult(SetPort(w, n, pn, port),
                [Returned(c, c.err) EXCEPT
                   !.failed = TRUE, !.failed_at = c.i,
                   !.post = port.next_sequence_num_to_send],
                UnlockPortMutex(ls, pn, t), 0)

Apply(t, r) ==
  /\ Commit(r.w)
  /\ th' = [th EXCEPT ![t] = r.c]
  /\ locks' = r.locks
  /\ send_with_ports_lock' = r.swp
  /\ UNCHANGED ports_lock

\* SendMessage from its entry, or OnPortAccepted from its entry, to the first
\* wait for send_with_ports_lock_ (or to the return)
LockPort(t) ==
  LET c == th[t]
      n == c.node
      pn == c.port
      port == ports[n][pn]
      pre == SendPrecheck(port, pn, c.m.ports)
      st == StampMessage(port, c.m)
      c1 == [c EXCEPT !.m = st[2], !.pre = port.next_sequence_num_to_send]
      ls == LockPortMutex(locks, pn, t)
  IN /\ c.pc = "start"
     /\ CanStep(t)
     /\ c.kind \in {"send", "accept"}
     /\ IF c.kind = "accept" /\ pn \notin DOMAIN ports[n]
          THEN Apply(t, StepResult(
                 Oops(World, n, "ERROR_PORT_UNKNOWN"),
                 Returned(c, "ERROR_PORT_UNKNOWN"), locks,
                 send_with_ports_lock))
        ELSE IF c.kind = "accept"
          THEN IF port.state # "Buffering"
                 THEN Apply(t, StepResult(
                        Oops(World, n, "ERROR_PORT_STATE_UNEXPECTED"),
                        Returned(c, "ERROR_PORT_STATE_UNEXPECTED"), locks,
                        send_with_ports_lock))
                 ELSE Apply(t, [ForwardNext(
                                  SetPort(World, n, pn,
                                          [port EXCEPT !.state = "Proxying"]),
                                  c1, t, ls)
                                EXCEPT !.swp = send_with_ports_lock])
        ELSE IF pre # "OK"
          THEN Apply(t, StepResult(World, Returned(c, pre), locks,
                                   send_with_ports_lock))
        ELSE IF c.m.ports = <<>>
          THEN Apply(t, [AfterWillSend(
                           SetPort(World, n, pn, st[1]),
                           [c1 EXCEPT !.m.port_name = port.peer_port_name],
                           t, ls)
                         EXCEPT !.swp = send_with_ports_lock])
        ELSE Apply(t, StepResult(SetPort(World, n, pn, st[1]),
                                 [c1 EXCEPT !.pc = "swp"], ls,
                                 send_with_ports_lock))
     /\ UNCHANGED <<local_messages, is_delivering, sendUnused>>

\* std::lock_guard<std::mutex> guard(send_with_ports_lock_)
LockSendWithPorts(t) ==
  /\ th[t].pc = "swp"
  /\ CanStep(t)
  /\ send_with_ports_lock' = t
  /\ th' = [th EXCEPT ![t].pc = "take", ![t].i = 1]
  /\ UNCHANGED <<protoVars, locks, ports_lock, apiVars>>

\* one turn of the loop that locks and checks the embedded ports; after the
\* last port, WillSendMessage_Locked to its return and the caller's code
\* after it
TakePort(t) ==
  LET c == th[t]
      n == c.node
      pn == c.port
      name == c.m.ports[c.i]
      port == ports[n][pn]
      error == TakeError(ports[n], port, name)
      r == WillSendPorts(World, n, port.peer_node_name, c.m, 1)
  IN /\ c.pc = "take"
     /\ CanStep(t)
     /\ IF error = "NULL_DEREF"
          THEN Apply(t, StepResult([World EXCEPT !.aborted = @ \cup {n}],
                                   [c EXCEPT !.pc = "crashed"], locks,
                                   send_with_ports_lock))
        ELSE IF error # "OK"
          THEN IF c.i = 1
                 THEN Apply(t, FailReturn(World, [c EXCEPT !.err = error],
                                          t, locks))
                 ELSE Apply(t, StepResult(World,
                                 [c EXCEPT !.pc = "unlock", !.err = error,
                                           !.j = c.i - 1],
                                 locks, send_with_ports_lock))
        ELSE IF c.i < Len(c.m.ports)
          THEN Apply(t, StepResult(World, [c EXCEPT !.i = c.i + 1],
                                   LockPortMutex(locks, name, t),
                                   send_with_ports_lock))
        ELSE Apply(t, AfterWillSend(
                        r.w,
                        [c EXCEPT !.m = [r.m EXCEPT !.port_name =
                                                       port.peer_port_name]],
                        t, locks \ TakenLocks(c, t)))
     /\ UNCHANGED <<local_messages, is_delivering, sendUnused>>

\* what unlock() of a std::mutex the thread does not own can do
UnownedUnlock == {"ignored", "released", "abort"}

\* "for (j <= i) ports[i]->lock.unlock()" after its first turn: ports[i] is
\* unlocked again, by a thread that no longer owns it
UnlockAgain(t) ==
  LET c == th[t]
      n == c.node
      name == c.m.ports[c.i]
  IN /\ c.pc = "unlock"
     /\ CanStep(t)
     /\ \E outcome \in UnownedUnlock :
          LET ls == IF outcome = "released"
                      THEN {l \in locks : l[1] # name} ELSE locks
          IN IF outcome = "abort"
               THEN Apply(t, StepResult([World EXCEPT !.aborted = @ \cup {n}],
                                        [c EXCEPT !.pc = "crashed"], locks,
                                        send_with_ports_lock))
             ELSE IF c.j > 1
               THEN Apply(t, StepResult(World, [c EXCEPT !.j = c.j - 1], ls,
                                        send_with_ports_lock))
             ELSE Apply(t, FailReturn(World, [c EXCEPT !.j = 0], t, ls))
     /\ UNCHANGED <<local_messages, is_delivering, sendUnused>>

\* the local_message_lock_ section of a SendMessage that flushes the queue
\* whether or not another call is flushing it
EnqueueLocal_Inline(t) ==
  LET c == th[t]
      n == c.node
  IN /\ c.pc = "local"
     /\ CanStep(t)
     /\ is_delivering' = [is_delivering EXCEPT ![n] = TRUE]
     /\ local_messages' = [local_messages EXCEPT ![n] = Append(@, c.m)]
     /\ th' = [th EXCEPT ![t] = [c EXCEPT !.pc = "drain"]]
     /\ UNCHANGED <<ports, chan, nextName, erased, closedEnds, bufClosure,
                    aborted, locks, send_with_ports_lock, ports_lock,
                    sendUnused>>

\* the local_message_lock_ section of SendMessage that queues the message
EnqueueLocal(t) ==
  LET c == th[t]
      n == c.node
  IN /\ c.pc = "local"
     /\ CanStep(t)
     /\ is_delivering' = [is_delivering EXCEPT ![n] = TRUE]
     /\ local_messages' = [local_messages EXCEPT ![n] = Append(@, c.m)]
     /\ th' = [th EXCEPT ![t] = IF is_delivering[n] THEN Returned(c, "OK")
                                 ELSE [c EXCEPT !.pc = "drain"]]
     /\ UNCHANGED <<ports, chan, nextName, erased, closedEnds, bufClosure,
                    aborted, locks, send_with_ports_lock, ports_lock,
                    sendUnused>>

\* one turn of the loop of SendMessage that flushes local_messages_
DrainStep(t) ==
  LET c == th[t]
      n == c.node
  IN /\ c.pc = "drain"
     /\ CanStep(t)
     /\ IF local_messages[n] = <<>>
          THEN /\ is_delivering' = [is_delivering EXCEPT ![n] = FALSE]
               /\ th' = [th EXCEPT ![t] = Returned(c, "OK")]
               /\ UNCHANGED <<ports, chan, nextName, erased, closedEnds,
                              bufClosure, aborted, local_messages>>
          ELSE \E w \in {AcceptMessage(World, n, Head(local_messages[n]))} :
                 /\ Commit(w)
                 /\ local_messages' = [local_messages EXCEPT ![n] = Tail(@)]
                 /\ th' = [th EXCEPT ![t] = IF w.rv = "OK" THEN c
                                             ELSE Returned(c, w.rv)]
                 /\ UNCHANGED is_delivering
     /\ UNCHANGED <<locks, send_with_ports_lock, ports_lock, sendUnused>>

ThreadLockPort == \E t \in DOMAIN th : LockPort(t)

ThreadLockSendWithPorts == \E t \in DOMAIN th : LockSendWithPorts(t)

ThreadTakePort == \E t \in DOMAIN th : TakePort(t)

ThreadUnlockAgain == \E t \in DOMAIN th : UnlockAgain(t)

ThreadEnqueueLocal == \E t \in DOMAIN th : EnqueueLocal(t)

ThreadDrainStep == \E t \in DOMAIN th : DrainStep(t)

NextSend ==
  \/ ThreadLockPort
  \/ ThreadLockSendWithPorts
  \/ ThreadTakePort
  \/ ThreadUnlockAgain
  \/ ThreadEnqueueLocal
  \/ ThreadDrainStep

SpecSend == InitSend /\ [][NextSend]_vars

----------------------------------------------------------------------------
(* SpecSendBad: the two threads of SpecSend call SendMessage with port     *)
(* lists that name a port of another node's map (8) or one port twice.     *)

BadLists == {<<8>>, <<6, 8>>, <<6, 6>>, <<10, 10>>}

BadCalls ==
  {SendCall(pn, e) : pn \in Senders, e \in BadLists \cup {<<>>, <<6, 2>>}}

InitSendBad ==
  /\ \E closed3 \in BOOLEAN :
       /\ ports = InitSendPorts(closed3)
       /\ held = [n \in Nodes |-> IF n = 1 THEN {1, 2, 3, 6, 10}
                                  ELSE (DOMAIN ports[n]) \ {9}]
  /\ chan = [c \in Nodes \X Nodes |-> <<>>]
  /\ local_messages = [n \in Nodes |-> <<>>]
  /\ is_delivering = [n \in Nodes |-> FALSE]
  /\ nextName = 12
  /\ sentCount = [e \in Ends |-> 0]
  /\ recv = [e \in Ends |-> <<>>]
  /\ erased = {}
  /\ closedEnds = {}
  /\ bufClosure = {}
  /\ nSends = 0
  /\ nTransfers = 0
  /\ aborted = {}
  /\ th \in [Threads -> BadCalls]
  /\ locks = {}
  /\ send_with_ports_lock = 0
  /\ ports_lock = 0
  /\ last = NoCall
  /\ nCalls = 0

\* ports[i]->lock.lock() on a std::mutex the thread already owns (the port
\* is named a second time): the thread blocks for ever (it has no step, see
\* CanStep) or the call aborts
RelockOwned(t) ==
  LET c == th[t] IN
  /\ c.pc = "take"
  /\ c.node \notin aborted
  /\ ports_lock = 0
  /\ <<c.m.ports[c.i], t>> \in locks
  /\ Apply(t, StepResult([World EXCEPT !.aborted = @ \cup {c.node}],
                         [c EXCEPT !.pc = "crashed"], locks,
                         send_with_ports_lock))
  /\ UNCHANGED <<local_messages, is_delivering, sendUnused>>

ThreadRelockOwned == \E t \in DOMAIN th : RelockOwned(t)

NextSendBad == NextSend \/ ThreadRelockOwned

SpecSendBad == InitSendBad /\ [][NextSendBad]_vars

----------------------------------------------------------------------------
(* Properties of SpecSend                                                  *)

Running(t) == th[t].pc \notin {"done", "crashed"}

\* some call has not returned and no thread has a step to take
Deadlocked ==
  /\ \E t \in Threads : Running(t)
  /\ \A t \in Threads : ~CanStep(t)

\* C7: concurrent SendMessage calls whose messages embed overlapping sets of
\* ports never deadlock, also when a port embedded by one call is the sending
\* port of the other: while no call has failed and the process has not
\* crashed, a call that has not returned can always go on.
C7_SendsNeverDeadlock ==
  (aborted = {} /\ \A t \in Threads : ~th[t].failed) => ~Deadlocked

\* two SendMessage calls from different Receiving ports whose messages embed
\* the same set of (Receiving) ports
SameSetSends ==
  /\ \A t \in Threads : th[t].kind = "send"
  /\ th[1].port # th[2].port
  /\ th[1].embed # <<>>
  /\ SeqToSet(th[1].embed) = SeqToSet(th[2].embed)

BothReturned == \A t \in Threads : th[t].pc = "done"

\* one call returned OK, the other PortStateUnexpected with its counter
\* rolled back, and each embedded port was transferred once
OneSendTookThePorts ==
  /\ \E t \in Threads : \E u \in Threads \ {t} :
       /\ th[t].rv = "OK"
       /\ th[u].rv = "ERROR_PORT_STATE_UNEXPECTED"
       /\ th[u].failed /\ th[u].post = th[u].pre
       /\ \A q \in SeqToSet(th[t].embed) :
            /\ ports[th[t].node][q].state = "Buffering"
            /\ \E k \in 1 .. Len(th[t].embed) :
                 /\ th[t].m.descs[k].referring_port_name = q
                 /\ th[t].m.ports[k] = ports[th[t].node][q].peer_port_name
       /\ th[u].m.ports = th[u].embed
  /\ nextName = 12 + Cardinality(SeqToSet(th[1].embed))

\* no embedded port is a sending port or names the peer of a sending port,
\* and no sending port has observed the closure of its peer
SendersApart ==
  \A t \in Threads :
    /\ \A u \in Threads :
         /\ th[u].port \notin SeqToSet(th[t].embed)
         /\ ports[th[u].node][th[u].port].peer_port_name
              \notin SeqToSet(th[t].embed)
    /\ ~ports[th[t].node][th[t].port].peer_closed

\* C8 (as stated): two threads calling SendMessage from two different
\* Receiving ports with messages embedding the same set of Receiving ports:
\* exactly one call returns OK, the other PortStateUnexpected; each embedded
\* port is transferred once; the loser's next_sequence_num_to_send is
\* unchanged.
C8_SameSetOneWins == (SameSetSends /\ BothReturned) => OneSendTookThePorts

\* C8 (amended): the same, provided no embedded port is either sending port
\* or the peer of either sending port and neither sending port has observed
\* its peer's closure; and in that case both calls do return.
C8_SameSetOneWinsApart ==
  (SameSetSends /\ SendersApart) =>
    /\ BothReturned => OneSendTookThePorts
    /\ ~Deadlocked

\* both calls returned after embedding the same two ports in different order
C8_Witness ==
  /\ SameSetSends /\ SendersApart /\ BothReturned
  /\ Len(th[1].embed) = 2
  /\ th[1].embed # th[2].embed

\* C9: when WillSendMessage_Locked fails at the i-th embedded port, every
\* port lock the call acquired is released by the time it returns.
C9_FailedSendReleasesLocks ==
  \A t \in Threads :
    (th[t].pc = "done" /\ th[t].failed) => \A l \in locks : l[2] # t

\* C10: a failed WillSendMessage_Locked leaves next_sequence_num_to_send as
\* it was before the call, for a user's SendMessage and for a proxy that
\* forwards a stamped message alike, and transfers no embedded port (no port
\* name of the message rewritten, no descriptor written).
C10_FailedWillSendRestores ==
  \A t \in Threads :
    th[t].failed =>
      /\ th[t].post = th[t].pre
      /\ \A k \in 1 .. Len(th[t].m.ports) : th[t].m.descs[k] = NoDesc

----------------------------------------------------------------------------
(* Port creation, port status and the loss of a node                       *)

\* Node::CreateUninitializedPort: the new port takes the next generated name
CreateUninitializedPort(w, n, end) ==
  AddPortWithName([w EXCEPT !.nextName = @ + 1], n, w.nextName,
                  NewPort(kInitialSequenceNum, kInitialSequenceNum, end))

\* the loop of FlushOutgoingMessages_Locked that rewrites the peer node of
\* the ports taken by the parked messages
RECURSIVE RewriteOutgoingPorts(_, _, _, _)
RewriteOutgoingPorts(w, n, names, peer_node_name) ==
  IF names = <<>> THEN w
  ELSE LET name == Head(names)
           w1 == IF HasPort(w, n, name)
                   THEN SetPort(w, n, name,
                          [w.ports[n][name] EXCEPT
                             !.peer_node_name = peer_node_name])
                   ELSE w
       IN RewriteOutgoingPorts(w1, n, Tail(names), peer_node_name)

\* the loop of FlushOutgoingMessages_Locked that forwards the parked messages
RECURSIVE ForwardOutgoingMessages(_, _, _, _)
ForwardOutgoingMessages(w, n, port, messages) ==
  IF messages = <<>> THEN w
  ELSE ForwardOutgoingMessages(
         ForwardMessage(w, n, port.peer_node_name,
                        [Head(messages) EXCEPT
                           !.port_name = port.peer_port_name]),
         n, port, Tail(messages))

\* FlushOutgoingMessages_Locked that forwards the parked messages with the
\* destination they were parked with
FlushOutgoingMessages_Locked_NoRewrite(w, n, pn) ==
  LET port == w.ports[n][pn]
      w1 == SetPort(w, n, pn, [port EXCEPT !.outgoing_ports = <<>>,
                                           !.outgoing_messages = <<>>])
      w2 == RewriteOutgoingPorts(w1, n, port.outgoing_ports,
                                 port.peer_node_name)
  IN ForwardOutgoingMessages(w2, n,
                             [port EXCEPT !.peer_port_name = NoName],
                             port.outgoing_messages)

\* Node::FlushOutgoingMessages_Locked
FlushOutgoingMessages_Locked(w, n, pn) ==
  LET port == w.ports[n][pn]
      w1 == SetPort(w, n, pn, [port EXCEPT !.outgoing_ports = <<>>,
                                           !.outgoing_messages = <<>>])
      w2 == RewriteOutgoingPorts(w1, n, port.outgoing_ports,
                                 port.peer_node_name)
  IN ForwardOutgoingMessages(w2, n, port, port.outgoing_messages)

\* Node::InitializePort
InitializePort(w, n, pn, peer_node_name, peer_port_name) ==
  LET port == w.ports[n][pn] IN
  IF port.state # "Uninitialized"
    THEN [w EXCEPT !.rv = "ERROR_PORT_STATE_UNEXPECTED"]
    ELSE [FlushOutgoingMessages_Locked(
            SetPort(w, n, pn,
              [port EXCEPT !.state = "Receiving",
                           !.peer_node_name = peer_node_name,
                           !.peer_port_name = peer_port_name]),
            n, pn)
          EXCEPT !.notify = @ \cup {<<n, pn>>}]

\* Node::GetStatus
GetStatus(port) ==
  IF port.state # "Receiving"
    THEN [rv |-> "ERROR_PORT_STATE_UNEXPECTED", has_messages |-> FALSE,
          peer_closed |-> FALSE]
    ELSE [rv |-> "OK", has_messages |-> QueueHeadReady(port.message_queue),
          peer_closed |-> port.peer_closed]

\* SetUserData that refuses every port that is not Receiving
SetUserData_Receiving(port, user_data) ==
  IF port.state # "Receiving"
    THEN [rv |-> "ERROR_PORT_STATE_UNEXPECTED", port |-> port]
    ELSE [rv |-> "OK", port |-> [port EXCEPT !.user_data = user_data]]

\* Node::SetUserData: the return code and the Port it leaves
SetUserData(port, user_data) ==
  IF port.state = "Closed"
    THEN [rv |-> "ERROR_PORT_STATE_UNEXPECTED", port |-> port]
    ELSE [rv |-> "OK", port |-> [port EXCEPT !.user_data = user_data]]

\* Node::GetUserData: the return code and *user_data (0: not written)
GetUserData(port) ==
  IF port.state = "Closed"
    THEN [rv |-> "ERROR_PORT_STATE_UNEXPECTED", user_data |-> 0]
    ELSE [rv |-> "OK", user_data |-> port.user_data]

\* LostConnectionToNode that marks a port whose peer was already known
\* closed once more, at the current cursor
LostPeer_AlsoClosed(port) ==
  [port EXCEPT
     !.peer_closed = TRUE,
     !.last_sequence_num_to_receive =
        port.message_queue.next_sequence_num - 1,
     !.closure_first = port.message_queue.next_sequence_num,
     !.closure_read = port.qread]

\* what LostConnectionToNode does to one record whose peer is on node_name
LostPeer(port) ==
  IF port.peer_closed THEN port
  ELSE [port EXCEPT
          !.peer_closed = TRUE,
          !.last_sequence_num_to_receive =
             port.message_queue.next_sequence_num - 1,
          !.closure_first = port.message_queue.next_sequence_num,
          !.closure_read = port.qread]

\* LostConnectionToNode that erases every record whose peer is on node_name
LostConnectionToNode_EraseReceiving(w, n, node_name) ==
  LET old == w.ports[n]
      peering == {pn \in DOMAIN old : old[pn].peer_node_name = node_name}
      notified == {pn \in peering :
                     old[pn].state = "Receiving" /\ ~old[pn].peer_closed}
  IN [w EXCEPT
        !.ports[n] = [pn \in (DOMAIN old) \ peering |-> old[pn]],
        !.notify = @ \cup {<<n, pn>> : pn \in notified}]

\* Node::LostConnectionToNode
LostConnectionToNode(w, n, node_name) ==
  LET old == w.ports[n]
      peering == {pn \in DOMAIN old : old[pn].peer_node_name = node_name}
      removed == {pn \in peering : old[pn].state # "Receiving"}
      notified == {pn \in peering :
                     old[pn].state = "Receiving" /\ ~old[pn].peer_closed}
  IN [w EXCEPT
        !.ports[n] = [pn \in (DOMAIN old) \ removed |->
                        IF pn \in peering THEN LostPeer(old[pn])
                        ELSE old[pn]],
        !.notify = @ \cup {<<n, pn>> : pn \in notified}]

----------------------------------------------------------------------------
(* SpecApi: the protocol of Spec with node loss, ports closed on either     *)
(* pipe and a port that is created Uninitialized; at any point one call of  *)
(* the embedder (or one delivery) is observed: `last` keeps the call, the   *)
(* state it found and its result, and the run ends there.                   *)

MaxCalls == 1

\* SendMessage calls the embedder makes in SpecApi
MaxApiSends == 2

\* pipe end of the port made by CreateUninitializedPort in SpecApi
LateEnd == 5

Unobserved == last.op = "none"

\* the state a call finds
Snapshot(w, queues) ==
  [ports |-> w.ports, chan |-> w.chan, local_messages |-> queues]

\* the message lists an observed SendMessage may carry: up to two different
\* ports of the node
EmbedLists(n) ==
  {<<>>} \cup {<<a>> : a \in DOMAIN ports[n]}
         \cup {l \in (DOMAIN ports[n]) \X (DOMAIN ports[n]) : l[1] # l[2]}

\* Node::ClosePort(port_ref) on any port the embedder holds
CallClosePort(n, pn) ==
  /\ n \notin aborted
  /\ pn \in held[n]
  /\ LET w == ClosePort(World, n, pn)
     IN /\ Commit(w)
        /\ held' = [held EXCEPT ![n] = IF w.rv = "OK" THEN @ \ {pn} ELSE @]
  /\ UNCHANGED <<local_messages, is_delivering, sentCount, recv,
                 nSends, nTransfers>>
  /\ UNCHANGED <<threadVars, last>>
  /\ nCalls' = nCalls + 1

\* Node::CreateUninitializedPort(&port_ref), once in a run
CallCreateUninitializedPort(n) ==
  /\ n \notin aborted
  /\ \A r \in Records : Rec(r).end # LateEnd
  /\ LateEnd \notin closedEnds
  /\ Commit(CreateUninitializedPort(World, n, LateEnd))
  /\ held' = [held EXCEPT ![n] = @ \cup {nextName}]
  /\ UNCHANGED <<local_messages, is_delivering, sentCount, recv,
                 nSends, nTransfers>>
  /\ UNCHANGED <<threadVars, last>>
  /\ nCalls' = nCalls + 1

\* Node::SendMessage on the Uninitialized port: the message is parked
CallSendMessageParked(n, pn, embed) ==
  /\ n \notin aborted
  /\ pn \in held[n]
  /\ ports[n][pn].state = "Uninitialized"
  /\ SeqToSet(embed) \subseteq held[n] \ {pn}
  /\ \A q \in SeqToSet(embed) : ports[n][q].end \in DataEnds
  /\ SendMessageCount(n, ports[n][pn], embed,
       SendMessageW(World, n, pn,
         AllocMessage(embed, <<ports[n][pn].end,
                                sentCount[ports[n][pn].end] + 1>>)))
  /\ UNCHANGED recv
  /\ UNCHANGED <<threadVars, apiVars>>

\* the embedder is told that the connection to node_name is gone
CallLostConnectionToNode(n, node_name) ==
  /\ n \notin aborted
  /\ node_name # n
  /\ Commit(LostConnectionToNode(World, n, node_name))
  /\ UNCHANGED <<local_messages, is_delivering, held, sentCount, recv,
                 nSends, nTransfers>>
  /\ UNCHANGED <<threadVars, last>>
  /\ nCalls' = nCalls + 1

ApiSend == Unobserved /\ nSends + nTransfers < MaxApiSends /\ Send

ApiPark ==
  /\ Unobserved
  /\ nSends + nTransfers < MaxApiSends
  /\ \E n \in Nodes : \E pn \in held[n] :
       \E embed \in {<<>>} \cup {<<q>> : q \in held[n]} :
         CallSendMessageParked(n, pn, embed)

ApiDelivery == Unobserved /\ Delivery

ApiRead == Unobserved /\ Read

ApiClose ==
  /\ Unobserved
  /\ nCalls < MaxCalls
  /\ \E n \in Nodes : \E pn \in held[n] : CallClosePort(n, pn)

ApiCreate ==
  /\ Unobserved
  /\ nCalls < MaxCalls
  /\ \E n \in Nodes : CallCreateUninitializedPort(n)

ApiLost ==
  /\ Unobserved
  /\ nCalls < MaxCalls
  /\ \E n \in Nodes : \E node_name \in Nodes :
       CallLostConnectionToNode(n, node_name)

\* what an observed call leaves unchanged in the bookkeeping of Spec
observeUnused ==
  <<held, sentCount, recv, nSends, nTransfers, threadVars, nCalls>>

\* an observed call returns: its result is kept with the call
ObserveWorld(w, call) ==
  /\ Commit(w)
  /\ last' = [call EXCEPT !.rv = w.rv, !.notify = w.notify]
  /\ UNCHANGED <<local_messages, is_delivering, observeUnused>>

\* an observed SendMessage returns
ObserveSent(n, r, call) ==
  /\ CommitSend(n, SendMessageDone(n, r))
  /\ last' = [call EXCEPT !.rv = r.w.rv]
  /\ UNCHANGED observeUnused

\* the call under observation, with the port it is made on and the state it
\* finds
Call(op, n, pn, port, pre) ==
  [op |-> op, node |-> n, port |-> pn, target |-> port, pre |-> pre,
   rv |-> "OK", notify |-> {}, embed |-> <<>>, m |-> <<>>,
   node_name |-> NoName, peer_node_name |-> NoName,
   peer_port_name |-> NoName]

\* SendMessage(port_ref, message) observed where the message embeds the port,
\* or the port is Buffering or Proxying, or the closure of its peer has been
\* observed
ObserveSendMessage(n, pn, embed) ==
  /\ n \notin aborted
  /\ \/ pn \in SeqToSet(embed)
     \/ ports[n][pn].state \in {"Buffering", "Proxying"}
     \/ ports[n][pn].peer_closed
  /\ ObserveSent(n,
       SendMessageW(World, n, pn, AllocMessage(embed, <<ports[n][pn].end, 0>>)),
       [Call("SendMessage", n, pn, ports[n][pn],
             Snapshot(World, local_messages))
          EXCEPT !.embed = embed])

\* SendMessage with a reference to a port that ClosePort has taken out of the
\* map: w1 is the world after ClosePort, port the Closed Port object
SendMessageClosed(w1, n, pn, port, embed) ==
  LET r == SendMessageW(SetPort(w1, n, pn, port), n, pn,
                        AllocMessage(embed, <<port.end, 0>>))
  IN [w |-> [ErasePort(r.w, n, pn) EXCEPT !.rv = r.w.rv],
      local |-> r.local]

\* ClosePort(port_ref) followed by SendMessage with the same port_ref: the
\* Port object, now Closed and out of the map, is still reached through the
\* reference
ObserveSendMessageClosed(n, pn, embed) ==
  /\ n \notin aborted
  /\ pn \in held[n]
  /\ ports[n][pn].state = "Receiving"
  /\ pn \notin SeqToSet(embed)
  /\ ObserveSent(n,
       SendMessageClosed(ClosePort(World, n, pn), n, pn,
                         [ports[n][pn] EXCEPT !.state = "Closed"], embed),
       [Call("SendMessage", n, pn, [ports[n][pn] EXCEPT !.state = "Closed"],
             Snapshot(ClosePort(World, n, pn), local_messages))
          EXCEPT !.embed = embed])

\* ClosePort(port_ref) observed on any port of the map
ObserveClosePort(n, pn) ==
  /\ n \notin aborted
  /\ ObserveWorld(ClosePort(World, n, pn),
                  Call("ClosePort", n, pn, ports[n][pn],
                       Snapshot(World, local_messages)))

\* the second ClosePort with a reference to a port that ClosePort has taken
\* out of the map
ClosePortClosed(w1, n, pn, port) ==
  LET w2 == ClosePort(SetPort(w1, n, pn, port), n, pn)
  IN IF w2.rv = "OK" THEN w2 ELSE [ErasePort(w2, n, pn) EXCEPT !.rv = w2.rv]

\* ClosePort(port_ref) twice with the same port_ref
ObserveClosePortClosed(n, pn) ==
  /\ n \notin aborted
  /\ pn \in held[n]
  /\ ports[n][pn].state = "Receiving"
  /\ ObserveWorld(
       ClosePortClosed(ClosePort(World, n, pn), n, pn,
                       [ports[n][pn] EXCEPT !.state = "Closed"]),
       Call("ClosePort", n, pn, [ports[n][pn] EXCEPT !.state = "Closed"],
            Snapshot(ClosePort(World, n, pn), local_messages)))

\* InitializePort(port_ref, peer_node_name, peer_port_name) observed on any
\* port of the map, the peer being a port of either node
ObserveInitializePort(n, pn, peer_node_name, peer_port_name) ==
  /\ n \notin aborted
  /\ <<peer_node_name, peer_port_name>> # <<n, pn>>
  /\ ObserveWorld(
       InitializePort(World, n, pn, peer_node_name, peer_port_name),
       [Call("InitializePort", n, pn, ports[n][pn],
             Snapshot(World, local_messages))
          EXCEPT !.peer_node_name = peer_node_name,
                 !.peer_port_name = peer_port_name])

\* LostConnectionToNode(node_name) observed
ObserveLostConnectionToNode(n, node_name) ==
  /\ n \notin aborted
  /\ node_name # n
  /\ ObserveWorld(
       LostConnectionToNode(World, n, node_name),
       [Call("LostConnectionToNode", n, NoName, <<>>,
             Snapshot(World, local_messages))
          EXCEPT !.node_name = node_name])

\* the message a delivery takes off its channel
Delivered(w, from, to) == [w EXCEPT !.chan[<<from, to>>] = Tail(@)]

\* the delivery of a user message that carries ports, observed
ObserveAcceptMessage(from, to) ==
  /\ to \notin aborted
  /\ chan[<<from, to>>] # <<>>
  /\ IF chan[<<from, to>>] # <<>>
       THEN /\ Head(chan[<<from, to>>]).type = "User"
            /\ Head(chan[<<from, to>>]).ports # <<>>
       ELSE FALSE
  /\ ObserveWorld(
       AcceptMessage(Delivered(World, from, to), to, Head(chan[<<from, to>>])),
       [Call("AcceptMessage", to, Head(chan[<<from, to>>]).port_name, <<>>,
             Snapshot(Delivered(World, from, to), local_messages))
          EXCEPT !.m = Head(chan[<<from, to>>])])

\* the delivery of an ObserveClosure event (AcceptMessage hands it to
\* OnObserveClosure), observed
ObserveClosureDelivery(from, to) ==
  /\ to \notin aborted
  /\ chan[<<from, to>>] # <<>>
  /\ IF chan[<<from, to>>] # <<>>
       THEN Head(chan[<<from, to>>]).type = "ObserveClosure"
       ELSE FALSE
  /\ ObserveWorld(
       OnObserveClosure(Delivered(World, from, to), to,
                        Head(chan[<<from, to>>]).port_name,
                        Head(chan[<<from, to>>]).last_sequence_num),
       [Call("ObserveClosure", to, Head(chan[<<from, to>>]).port_name, <<>>,
             Snapshot(Delivered(World, from, to), local_messages))
          EXCEPT !.m = Head(chan[<<from, to>>])])

\* the delivery of a user message (AcceptMessage hands it to OnUserMessage),
\* observed
ObserveUserMessage(from, to) ==
  /\ to \notin aborted
  /\ chan[<<from, to>>] # <<>>
  /\ IF chan[<<from, to>>] # <<>>
       THEN Head(chan[<<from, to>>]).type = "User"
       ELSE FALSE
  /\ ObserveWorld(
       OnUserMessage(Delivered(World, from, to), to, Head(chan[<<from, to>>])),
       [Call("UserMessage", to, Head(chan[<<from, to>>]).port_name, <<>>,
             Snapshot(Delivered(World, from, to), local_messages))
          EXCEPT !.m = Head(chan[<<from, to>>])])

\* GetMessage(port_ref, &message) observed on any port of the map: the
\* embedder may keep the port_ref of a port it has sent
ObserveGetMessage(n, pn) ==
  /\ n \notin aborted
  /\ ObserveWorld(GetMessageIf(World, n, pn),
                  Call("GetMessage", n, pn, ports[n][pn],
                       Snapshot(World, local_messages)))

\* what GetStatus, SetUserData and then GetUserData return, called in this
\* order with the same port_ref
Inspections(port, user_data) ==
  [status |-> GetStatus(port), set |-> SetUserData(port, user_data),
   get |-> GetUserData(SetUserData(port, user_data).port),
   user_data |-> user_data]

\* GetStatus, SetUserData and GetUserData observed on a port of the map or,
\* with closed, on a port_ref kept after ClosePort
ObserveInspections(n, pn, closed, user_data) ==
  /\ n \notin aborted
  /\ closed => ports[n][pn].state = "Receiving"
  /\ ObserveWorld(
       IF closed THEN ClosePort(World, n, pn)
       ELSE SetPort(World, n, pn, SetUserData(ports[n][pn], user_data).port),
       [Call("Inspect", n, pn,
             IF closed THEN [ports[n][pn] EXCEPT !.state = "Closed"]
             ELSE ports[n][pn],
             Snapshot(World, local_messages))
          EXCEPT !.m = Inspections(
                         IF closed THEN [ports[n][pn] EXCEPT !.state = "Closed"]
                         ELSE ports[n][pn], user_data)])

ObservedSend ==
  /\ Unobserved
  /\ \E n \in Nodes : \E pn \in DOMAIN ports[n] : \E embed \in EmbedLists(n) :
       ObserveSendMessage(n, pn, embed)

ObservedSendClosed ==
  /\ Unobserved
  /\ \E n \in Nodes : \E pn \in held[n] : \E embed \in EmbedLists(n) :
       ObserveSendMessageClosed(n, pn, embed)

ObservedClose ==
  /\ Unobserved
  /\ \E n \in Nodes : \E pn \in DOMAIN ports[n] : ObserveClosePort(n, pn)

ObservedCloseClosed ==
  /\ Unobserved
  /\ \E n \in Nodes : \E pn \in held[n] : ObserveClosePortClosed(n, pn)

ObservedInitialize ==
  /\ Unobserved
  /\ \E n \in Nodes : \E pn \in DOMAIN ports[n] :
       \E peer \in Records : ObserveInitializePort(n, pn, peer[1], peer[2])

ObservedLost ==
  /\ Unobserved
  /\ \E n \in Nodes : \E node_name \in Nodes :
       ObserveLostConnectionToNode(n, node_name)

ObservedDelivery ==
  /\ Unobserved
  /\ \E from \in Nodes : \E to \in Nodes : ObserveAcceptMessage(from, to)

ObservedClosure ==
  /\ Unobserved
  /\ \E from \in Nodes : \E to \in Nodes : ObserveClosureDelivery(from, to)

ObservedInspections ==
  /\ Unobserved
  /\ \E n \in Nodes : \E pn \in DOMAIN ports[n] : \E closed \in BOOLEAN :
       \E user_data \in {1, 2} : ObserveInspections(n, pn, closed, user_data)

NextApi ==
  \/ ApiSend
  \/ ApiPark
  \/ ApiDelivery
  \/ ApiRead
  \/ ApiClose
  \/ ApiCreate
  \/ ApiLost
  \/ ObservedSend
  \/ ObservedSendClosed
  \/ ObservedClose
  \/ ObservedCloseClosed
  \/ ObservedInitialize
  \/ ObservedLost
  \/ ObservedDelivery
  \/ ObservedClosure

SpecApi == Init /\ [][NextApi]_vars

\* the embedder's calls with GetStatus, SetUserData and GetUserData, the
\* delivery of a user message or GetMessage on any port observed
NextInspect ==
  \/ ApiSend
  \/ ApiDelivery
  \/ ApiRead
  \/ ApiClose
  \/ ApiCreate
  \/ ObservedInspections
  \/ Unobserved /\ \E from \in Nodes : \E to \in Nodes :
                     ObserveUserMessage(from, to)
  \/ Unobserved /\ \E n \in Nodes : \E pn \in DOMAIN ports[n] :
                     ObserveGetMessage(n, pn)

SpecInspect == Init /\ [][NextInspect]_vars

----------------------------------------------------------------------------
(* SpecEvents: the embedder's calls of SpecApi, and one event handed to     *)
(* Node::AcceptMessage for any port of a node, observed: the run ends with  *)
(* the state the handler found and what it returned.                        *)

\* SendMessage calls the embedder makes in SpecEvents
MaxEventSends == 3

\* the ObserveProxyEventData a record of a port map announces itself with
\* (InitiateProxyRemoval_Locked: proxy is the record, proxy_to its peer)
EventData ==
  {[proxy_node_name |-> r[1], proxy_port_name |-> r[2],
    proxy_to_node_name |-> Rec(r).peer_node_name,
    proxy_to_port_name |-> Rec(r).peer_port_name] : r \in Records}

\* the events the delegate may hand to node n: each kind of event, for a
\* port of the map or for a name that is not in the map, with any
\* last_sequence_num the sends made so far allow (0 is kInvalidSequenceNum)
Events(n) ==
  LET names == (DOMAIN ports[n]) \cup {nextName} IN
  {NewInternalMessage(pn, "PortAccepted", 0, NoEvent) : pn \in names}
    \cup {NewInternalMessage(pn, "ObserveProxy", 0, e) :
            pn \in names, e \in EventData}
    \cup {NewInternalMessage(pn, type, lsn, NoEvent) :
            pn \in names, type \in {"ObserveProxyAck", "ObserveClosure"},
            lsn \in 0 .. MaxEventSends}

\* AcceptMessage(message) observed for an event
ObserveEvent(n, m) ==
  /\ n \notin aborted
  /\ ObserveWorld(
       AcceptMessage(World, n, m),
       [Call(m.type, n, m.port_name,
             IF m.port_name \in DOMAIN ports[n]
               THEN ports[n][m.port_name] ELSE <<>>,
             Snapshot(World, local_messages))
          EXCEPT !.m = m])

ObservedEvent ==
  /\ Unobserved
  /\ \E n \in Nodes : \E m \in Events(n) : ObserveEvent(n, m)

NextEvents ==
  \/ Unobserved /\ nSends + nTransfers < MaxEventSends /\ Send
  \/ ApiDelivery
  \/ ApiRead
  \/ ApiClose
  \/ ObservedEvent

SpecEvents == Init /\ [][NextEvents]_vars

----------------------------------------------------------------------------
(* SpecLocal: a pipe whose two ends were made on node 2 (CreatePortPair),  *)
(* with the loop of SendMessage that flushes local_messages_ taken one     *)
(* AcceptMessage at a time: the events the delegate hands over and the     *)
(* calls of other threads come in between. th[n] tells whether a call on    *)
(* node n is inside that loop.                                              *)

\* the data pipe (ports 1 and 2) has both ends on node 2; the carrier pipe
\* joins the nodes (port 3 on node 1, port 4 on node 2)
InitLocal ==
  /\ ports = [n \in Nodes |->
       IF n = 1
         THEN (3 :> InitPort(2, 4, 3))
         ELSE (1 :> InitPort(2, 2, 1)) @@ (2 :> InitPort(2, 1, 2))
              @@ (4 :> InitPort(1, 3, 4))]
  /\ chan = [c \in Nodes \X Nodes |-> <<>>]
  /\ local_messages = [n \in Nodes |-> <<>>]
  /\ is_delivering = [n \in Nodes |-> FALSE]
  /\ nextName = 5
  /\ held = [n \in Nodes |-> IF n = 1 THEN {3} ELSE {1, 2, 4}]
  /\ sentCount = [e \in Ends |-> 0]
  /\ recv = [e \in Ends |-> <<>>]
  /\ erased = {}
  /\ closedEnds = {}
  /\ bufClosure = {}
  /\ nSends = 0
  /\ nTransfers = 0
  /\ aborted = {}
  /\ th = [n \in Nodes |-> "idle"]
  /\ locks = {}
  /\ send_with_ports_lock = 0
  /\ ports_lock = 0
  /\ last = NoCall
  /\ nCalls = 0

\* Node::SendMessage to the end of its local_message_lock_ section: a message
\* for a port of this node is appended to local_messages_, and the caller
\* starts the flush unless another call is in it
SendMessageQueued(n, pn, embed) ==
  /\ n \notin aborted
  /\ pn \in held[n]
  /\ IF embed = <<>>
       THEN nSends < MaxSends /\ ports[n][pn].end \in DataEnds
       ELSE /\ nTransfers < MaxTransfers
            /\ ports[n][pn].end \in CarrierEnds
            /\ embed[1] \in held[n]
            /\ ports[n][embed[1]].end \in DataEnds
  /\ \E r \in {SendMessageW(World, n, pn,
                 AllocMessage(embed, <<ports[n][pn].end,
                                        sentCount[ports[n][pn].end] + 1>>))} :
       /\ Commit(r.w)
       /\ IF r.w.rv # "OK"
            THEN UNCHANGED <<held, sentCount, nSends, nTransfers>>
            ELSE /\ held' = [held EXCEPT ![n] = @ \ SeqToSet(embed)]
                 /\ sentCount' = [sentCount EXCEPT ![ports[n][pn].end] = @ + 1]
                 /\ nSends' = IF embed = <<>> THEN nSends + 1 ELSE nSends
                 /\ nTransfers' =
                      IF embed = <<>> THEN nTransfers ELSE nTransfers + 1
       /\ IF r.local = <<>>
            THEN UNCHANGED <<local_messages, is_delivering, th>>
            ELSE /\ local_messages' =
                      [local_messages EXCEPT ![n] = Append(@, r.local)]
                 /\ is_delivering' = [is_delivering EXCEPT ![n] = TRUE]
                 /\ th' = IF is_delivering[n] THEN th
                          ELSE [th EXCEPT ![n] = "drain"]
  /\ UNCHANGED <<recv, locks, send_with_ports_lock, ports_lock, apiVars>>

\* the flush loop that returns after its first AcceptMessage
DrainNext_OneTurn(n) ==
  /\ n \notin aborted
  /\ th[n] = "drain"
  /\ IF local_messages[n] = <<>>
       THEN /\ is_delivering' = [is_delivering EXCEPT ![n] = FALSE]
            /\ th' = [th EXCEPT ![n] = "idle"]
            /\ UNCHANGED <<ports, chan, nextName, erased, closedEnds,
                           bufClosure, aborted, local_messages>>
       ELSE \E w \in {AcceptMessage(World, n, Head(local_messages[n]))} :
              /\ Commit(w)
              /\ local_messages' = [local_messages EXCEPT ![n] = Tail(@)]
              /\ th' = [th EXCEPT ![n] = "idle"]
              /\ UNCHANGED is_delivering
  /\ UNCHANGED <<held, sentCount, recv, nSends, nTransfers, locks,
                 send_with_ports_lock, ports_lock, apiVars>>

\* one turn of the loop of SendMessage that flushes local_messages_: the
\* loop ends when the queue is empty, and is left with
\* is_delivering_local_messages_ still set when AcceptMessage fails
DrainNext(n) ==
  /\ n \notin aborted
  /\ th[n] = "drain"
  /\ IF local_messages[n] = <<>>
       THEN /\ is_delivering' = [is_delivering EXCEPT ![n] = FALSE]
            /\ th' = [th EXCEPT ![n] = "idle"]
            /\ UNCHANGED <<ports, chan, nextName, erased, closedEnds,
                           bufClosure, aborted, local_messages>>
       ELSE \E w \in {AcceptMessage(World, n, Head(local_messages[n]))} :
              /\ Commit(w)
              /\ local_messages' = [local_messages EXCEPT ![n] = Tail(@)]
              /\ th' = [th EXCEPT ![n] = IF w.rv = "OK" THEN "drain"
                                         ELSE "idle"]
              /\ UNCHANGED is_delivering
  /\ UNCHANGED <<held, sentCount, recv, nSends, nTransfers, locks,
                 send_with_ports_lock, ports_lock, apiVars>>

LocalSend ==
  /\ Unobserved
  /\ \E n \in Nodes : \E pn \in held[n] :
       \E embed \in {<<>>} \cup {<<q>> : q \in held[n]} :
         SendMessageQueued(n, pn, embed)

LocalDrain == Unobserved /\ \E n \in Nodes : DrainNext(n)

NextLocal ==
  \/ LocalSend
  \/ LocalDrain
  \/ ApiDelivery
  \/ ApiRead
  \/ ObservedEvent

SpecLocal == InitLocal /\ [][NextLocal]_vars

----------------------------------------------------------------------------
(* SpecLocalFair: the calls of SpecLocal with no call under observation;   *)
(* the thread that is in the flush loop of SendMessage keeps running.      *)

NextLocalFair == LocalSend \/ LocalDrain \/ ApiDelivery \/ ApiRead

\* the flush loop of node n has a turn to take
DrainEnabled(n) == n \notin aborted /\ th[n] = "drain" /\ Unobserved

\* Weak fairness of each flush loop, written with the enabling condition of
\* its step.
SpecLocalFair ==
  /\ InitLocal
  /\ [][NextLocalFair]_vars
  /\ \A n \in Nodes :
       \/ []<>~DrainEnabled(n)
       \/ []<><<Unobserved /\ DrainNext(n)>>_vars

(***************************************************************************)
(* Contracts of the embedder's calls, read off the observed call           *)
(***************************************************************************)

\* the observed call changed neither a port, nor a channel, nor a local queue
NothingChanged ==
  /\ ports = last.pre.ports
  /\ chan = last.pre.chan
  /\ local_messages = last.pre.local_messages

\* C11: SendMessage(p, m) with a message that embeds p itself returns
\* CannotSendSelf: p keeps its state, peer and next_sequence_num_to_send,
\* nothing is forwarded or enqueued and no port embedded in m changes.
C11_SelfEmbedRefused ==
  (last.op = "SendMessage" /\ last.port \in SeqToSet(last.embed)) =>
    /\ last.rv = "ERROR_PORT_CANNOT_SEND_SELF"
    /\ NothingChanged
    /\ ports[last.node][last.port] = last.target

\* a Receiving port was sent inside a message together with a second
\* Receiving port, and the call was refused
C11_Witness ==
  /\ last.op = "SendMessage"
  /\ last.port \in SeqToSet(last.embed)
  /\ Len(last.embed) = 2
  /\ last.target.state = "Receiving"
  /\ \A q \in SeqToSet(last.embed) :
       last.pre.ports[last.node][q].state = "Receiving"
  /\ last.rv = "ERROR_PORT_CANNOT_SEND_SELF"

----------------------------------------------------------------------------
(* SendMessage with the sender's peer in the message (SpecSend)            *)

\* thread t calls SendMessage from a Receiving port whose peer is not known
\* closed, with a message of Receiving ports that embeds the peer of the
\* sending port and not the sending port
SendsItsPeer(t) ==
  LET c == th[t]
      port == ports[c.node][c.port]
  IN /\ c.kind = "send"
     /\ port.state = "Receiving"
     /\ ~port.peer_closed
     /\ port.peer_node_name = c.node
     /\ port.peer_port_name \in SeqToSet(c.embed)
     /\ c.port \notin SeqToSet(c.embed)
     /\ \A q \in SeqToSet(c.embed) : ports[c.node][q].state = "Receiving"

\* C12: SendMessage(p, m) where p is Receiving and m embeds the Receiving
\* port that is p's current peer returns CannotSendPeer, and the peer stays
\* Receiving with its name and its peer unchanged.
C12_PeerEmbedRefused ==
  \A t \in Threads :
    SendsItsPeer(t) =>
      /\ th[t].pc # "crashed"
      /\ th[t].pc = "done" =>
           /\ th[t].rv = "ERROR_PORT_CANNOT_SEND_PEER"
           /\ ports[th[t].node][ports[th[t].node][th[t].port].peer_port_name]
                .peer_port_name = th[t].port

----------------------------------------------------------------------------
(* SendMessage on a port that cannot send (SpecApi)                        *)

\* the result SendMessage owes to a port that cannot send
RefusedAs(port) ==
  IF port.state \in {"Buffering", "Proxying", "Closed"}
    THEN "ERROR_PORT_STATE_UNEXPECTED"
  ELSE IF port.state = "Receiving" /\ port.peer_closed
    THEN "ERROR_PORT_PEER_CLOSED"
  ELSE "OK"

\* C13 (as stated): SendMessage on a Buffering, Proxying or Closed port
\* returns PortStateUnexpected, and on a Receiving port with peer_closed
\* returns PeerClosed; no sequence number is consumed, nothing is forwarded
\* or enqueued and no embedded port changes state.
C13_CannotSendRefused ==
  (last.op = "SendMessage" /\ RefusedAs(last.target) # "OK") =>
    /\ last.rv = RefusedAs(last.target)
    /\ NothingChanged

\* C13 (amended): the same for every message that does not embed the sending
\* port itself.
C13_CannotSendRefusedNotSelf ==
  (/\ last.op = "SendMessage"
   /\ RefusedAs(last.target) # "OK"
   /\ last.port \notin SeqToSet(last.embed)) =>
    /\ last.rv = RefusedAs(last.target)
    /\ NothingChanged

\* a Receiving port that has observed the closure of its peer was refused a
\* message that embeds another Receiving port
C13_Witness ==
  /\ last.op = "SendMessage"
  /\ last.target.state = "Receiving"
  /\ last.target.peer_closed
  /\ last.embed # <<>>
  /\ last.port \notin SeqToSet(last.embed)
  /\ \A q \in SeqToSet(last.embed) :
       last.pre.ports[last.node][q].state = "Receiving"
  /\ last.rv = "ERROR_PORT_PEER_CLOSED"

----------------------------------------------------------------------------
(* GetMessage and the closure of the peer (SpecApi)                        *)

\* the queue cannot produce the next message and every message up to
\* last_sequence_num_to_receive has been returned
Drained(port) ==
  /\ port.peer_closed
  /\ ~QueueHeadReady(port.message_queue)
  /\ port.message_queue.next_sequence_num > port.last_sequence_num_to_receive

\* C14: GetMessage on a Receiving port returns PeerClosed exactly when the
\* queue cannot produce another in-order message and every sequence number
\* up to last_sequence_num_to_receive has been returned; whenever the head
\* of the queue is the message the cursor waits for, GetMessage returns it
\* with OK. This holds for a closure learned through ObserveClosure and for
\* one learned through LostConnectionToNode.
C14_PeerClosedWhenDrained ==
  \A r \in Records :
    Rec(r).state = "Receiving" =>
      /\ QueueHeadReady(Rec(r).message_queue) =>
           GetMessageResult(Rec(r)) = "OK"
      /\ GetMessageResult(Rec(r)) = "ERROR_PORT_PEER_CLOSED" <=>
           Drained(Rec(r))

----------------------------------------------------------------------------
(* ClosePort (SpecApi)                                                     *)

\* the observed call sent message m from its node to node `to` and nothing
\* else
SentOnly(to, m) ==
  /\ chan = [last.pre.chan EXCEPT ![<<last.node, to>>] = Append(@, m)]
  /\ local_messages = last.pre.local_messages

\* the ports of the node of the observed call, without the port of the call
OtherPorts(portsOfNode) ==
  [pn \in (DOMAIN portsOfNode) \ {last.port} |-> portsOfNode[pn]]

\* C15: ClosePort on a Receiving port sends exactly one ObserveClosure to
\* its peer, carrying last_sequence_num = next_sequence_num_to_send - 1, and
\* erases the record (which it marked Closed) from the port map; on a port
\* in any other state it returns PortStateUnexpected, sends nothing and
\* leaves the record in the map unchanged.
C15_ClosePortContract ==
  last.op = "ClosePort" =>
    IF last.target.state = "Receiving"
      THEN /\ last.rv = "OK"
           /\ last.port \notin DOMAIN ports[last.node]
           /\ ports = [last.pre.ports EXCEPT
                         ![last.node] = OtherPorts(@)]
           /\ last.target.end \in closedEnds
           /\ LET sent == chan[<<last.node, last.target.peer_node_name>>]
                  m == sent[Len(sent)]
              IN /\ sent # <<>>
                 /\ SentOnly(last.target.peer_node_name, m)
                 /\ m.type = "ObserveClosure"
                 /\ m.port_name = last.target.peer_port_name
                 /\ m.last_sequence_num =
                      last.target.next_sequence_num_to_send - 1
      ELSE /\ last.rv = "ERROR_PORT_STATE_UNEXPECTED"
           /\ NothingChanged

\* a Receiving port that had sent a message was closed
C15_Witness ==
  /\ last.op = "ClosePort"
  /\ last.target.state = "Receiving"
  /\ last.target.next_sequence_num_to_send > kInitialSequenceNum
  /\ last.rv = "OK"

----------------------------------------------------------------------------
(* The closure of the peer as the embedder sees it (Spec)                  *)

\* C16: after ClosePort on one end, the other end is notified of the closure
\* only after it has consumed all pending messages: while a message numbered
\* up to the closer's last_sequence_num is unread, no PortStatusChanged has
\* been raised for the closure (closure_first is the cursor at the time it
\* was raised) and GetStatus does not report peer_closed.
C16_ClosureNotifiedAfterDrain ==
  \A r \in Records :
    (Rec(r).state = "Receiving" /\ GetStatus(Rec(r)).peer_closed) =>
      /\ Rec(r).message_queue.next_sequence_num >
           Rec(r).last_sequence_num_to_receive
      /\ Rec(r).closure_first > Rec(r).last_sequence_num_to_receive

----------------------------------------------------------------------------
(* InitializePort (SpecApi)                                                *)

\* the parked messages as InitializePort owes them to the delegate: in the
\* order they were sent, addressed to the peer port
Flushed(messages, peer_port_name) ==
  [i \in 1 .. Len(messages) |->
     [messages[i] EXCEPT !.port_name = peer_port_name]]

\* C17: InitializePort on an Uninitialized port records the peer, sets state
\* Receiving, forwards every parked outgoing message through the delegate in
\* the order it was sent with its destination port rewritten to the peer
\* port, leaves outgoing_messages empty and raises one status notification;
\* on a port in any other state it returns PortStateUnexpected and changes
\* neither state nor peer.
C17_InitializePortContract ==
  last.op = "InitializePort" =>
    IF last.target.state = "Uninitialized"
      THEN LET port == ports[last.node][last.port]
               to == <<last.node, last.peer_node_name>>
           IN /\ last.rv = "OK"
              /\ port.state = "Receiving"
              /\ port.peer_node_name = last.peer_node_name
              /\ port.peer_port_name = last.peer_port_name
              /\ port.outgoing_messages = <<>>
              /\ chan = [last.pre.chan EXCEPT
                           ![to] = @ \o Flushed(last.target.outgoing_messages,
                                                last.peer_port_name)]
              /\ \A i \in 1 .. Len(last.target.outgoing_messages) :
                   last.target.outgoing_messages[i].sequence_num = i
              /\ local_messages = last.pre.local_messages
              /\ last.notify = {<<last.node, last.port>>}
      ELSE /\ last.rv = "ERROR_PORT_STATE_UNEXPECTED"
           /\ last.notify = {}
           /\ NothingChanged

\* a port with two parked messages, one of them carrying a port, was
\* initialized
C17_Witness ==
  /\ last.op = "InitializePort"
  /\ last.target.state = "Uninitialized"
  /\ Len(last.target.outgoing_messages) = 2
  /\ last.target.outgoing_ports # <<>>
  /\ last.rv = "OK"

----------------------------------------------------------------------------
(* LostConnectionToNode (SpecApi)                                          *)

\* C18: LostConnectionToNode(name) sets peer_closed and
\* last_sequence_num_to_receive = queue cursor - 1 on every port whose peer
\* node is name and that was not already peer-closed, erases every such port
\* that is not Receiving, raises a status notification for each Receiving
\* port newly marked, and leaves every port whose peer node is not name
\* unchanged and in the map.
C18_LostConnectionContract ==
  last.op = "LostConnectionToNode" =>
    LET old == last.pre.ports[last.node]
        new == ports[last.node]
    IN /\ last.rv = "OK"
       /\ \A pn \in DOMAIN old :
            IF old[pn].peer_node_name # last.node_name
              THEN pn \in DOMAIN new /\ new[pn] = old[pn]
            ELSE IF old[pn].state # "Receiving"
              THEN pn \notin DOMAIN new
            ELSE /\ pn \in DOMAIN new
                 /\ new[pn].state = "Receiving"
                 /\ new[pn].peer_closed
                 /\ new[pn].message_queue = old[pn].message_queue
                 /\ new[pn].last_sequence_num_to_receive =
                      IF old[pn].peer_closed
                        THEN old[pn].last_sequence_num_to_receive
                        ELSE old[pn].message_queue.next_sequence_num - 1
       /\ DOMAIN new \subseteq DOMAIN old
       /\ last.notify =
            {<<last.node, pn>> : pn \in
               {q \in DOMAIN old :
                  /\ old[q].peer_node_name = last.node_name
                  /\ old[q].state = "Receiving"
                  /\ ~old[q].peer_closed}}
       /\ \A n \in Nodes \ {last.node} : ports[n] = last.pre.ports[n]
       /\ chan = last.pre.chan
       /\ local_messages = last.pre.local_messages

\* the node lost the connection while it had a Receiving port and a port
\* that was not Receiving, both with their peer on the lost node
C18_Witness ==
  /\ last.op = "LostConnectionToNode"
  /\ \E pn \in DOMAIN last.pre.ports[last.node] :
       LET port == last.pre.ports[last.node][pn]
       IN /\ port.peer_node_name = last.node_name
          /\ port.state = "Receiving"
          /\ ~port.peer_closed
  /\ \E pn \in DOMAIN last.pre.ports[last.node] :
       LET port == last.pre.ports[last.node][pn]
       IN /\ port.peer_node_name = last.node_name
          /\ port.state # "Receiving"

----------------------------------------------------------------------------
(* Events for ports that are gone (SpecApi)                                *)

\* C19: no event delivered through AcceptMessage aborts the node: a
\* PortAccepted, ObserveProxy, ObserveProxyAck or ObserveClosure for an
\* unknown port or for a port in an unexpected state (a PortAccepted that
\* arrives after LostConnectionToNode erased the Buffering port) is dropped
\* with an error result, never a fatal check failure.
C19_EventsNeverAbort == \A n \in Nodes : n \notin aborted

----------------------------------------------------------------------------
(* A user message nobody can take (SpecApi)                                *)

\* the observed delivery found no port to queue its message at: the port is
\* unknown, or it has received its last expected message
Orphaned ==
  /\ last.op = "AcceptMessage"
  /\ last.port \in DOMAIN last.pre.ports[last.node] =>
       ~CanAcceptMoreMessages(last.pre.ports[last.node][last.port])

\* what OnUserMessage owes for the ports of an orphaned message: PortAccepted
\* to each referring port, then ObserveClosure to the peer of each port
OrphanEvents(m) ==
  [i \in 1 .. Len(m.ports) |->
     [to |-> m.descs[i].referring_node_name,
      event |-> <<"PortAccepted", m.descs[i].referring_port_name, 0>>]]
  \o
  [i \in 1 .. Len(m.ports) |->
     [to |-> m.descs[i].peer_node_name,
      event |-> <<"ObserveClosure", m.descs[i].peer_port_name,
                  m.descs[i].next_sequence_num_to_send - 1>>]]

\* the events of a sequence that go to node `to`
EventsTo(events, to) ==
  LET Goes(e) == e.to = to
      sel == SelectSeq(events, Goes)
  IN [i \in 1 .. Len(sel) |-> sel[i].event]

\* what the node of the observed call has sent to node `to` since the call
SentSince(to) ==
  LET now == chan[<<last.node, to>>]
      k == Len(last.pre.chan[<<last.node, to>>])
  IN [i \in 1 .. (Len(now) - k) |->
        <<now[k + i].type, now[k + i].port_name,
          now[k + i].last_sequence_num>>]

\* C20: a user message that arrives for an unknown port, or for a port that
\* has received its last expected message, is not queued; every port
\* embedded in it is still created (PortAccepted is sent to its referring
\* port) and is then closed at once: ObserveClosure goes to the peer of the
\* port and the new record is erased.
C20_OrphanedPortsClosed ==
  Orphaned =>
    /\ last.rv = "OK"
    /\ ports = last.pre.ports
    /\ \A i \in 1 .. Len(last.m.ports) :
         /\ last.m.ports[i] \notin DOMAIN ports[last.node]
         /\ last.m.descs[i].end \in closedEnds
    /\ \A to \in Nodes :
         /\ Len(chan[<<last.node, to>>]) >=
              Len(last.pre.chan[<<last.node, to>>])
         /\ SubSeq(chan[<<last.node, to>>], 1,
                   Len(last.pre.chan[<<last.node, to>>]))
              = last.pre.chan[<<last.node, to>>]
         /\ SentSince(to) = EventsTo(OrphanEvents(last.m), to)
    /\ \A c \in DOMAIN chan : c[1] # last.node => chan[c] = last.pre.chan[c]
    /\ local_messages = last.pre.local_messages

\* a message that carries a port arrived for a port that is not in the map
C20_Witness ==
  /\ Orphaned
  /\ last.port \notin DOMAIN last.pre.ports[last.node]
  /\ last.m.ports # <<>>
  /\ last.rv = "OK"

----------------------------------------------------------------------------
(* SpecLock: the threads of SpecSend next to a thread that runs             *)
(* Node::LostConnectionToNode, with ports_lock_ explicit: GetPort, ErasePort *)
(* and AddPortWithName wait for it, LostConnectionToNode holds it while it   *)
(* locks one port after the other.                                          *)

\* a thread about to call LostConnectionToNode(node_name)
LostCall(node_name) ==
  [Thread0 EXCEPT !.kind = "lost", !.node_name = node_name]

\* the body of the loop of LostConnectionToNode for one entry of ports_
LostVisitPort(w, n, pn, node_name) ==
  LET port == w.ports[n][pn] IN
  IF port.peer_node_name # node_name THEN w
  ELSE IF port.state # "Receiving" THEN ErasePort(w, n, pn)
  ELSE SetPort(w, n, pn, LostPeer(port))

\* std::lock_guard<std::mutex> guard(ports_lock_) of LostConnectionToNode, up
\* to the wait for the lock of the first port; the iteration order of the
\* unordered_map is any order
LostLock(t) ==
  LET c == th[t] IN
  /\ c.pc = "start"
  /\ c.kind = "lost"
  /\ CanStep(t)
  /\ ports_lock' = t
  /\ \E first \in DOMAIN ports[c.node] :
       th' = [th EXCEPT ![t] = [c EXCEPT !.pc = "visit", !.port = first,
                                         !.todo = (DOMAIN ports[c.node])
                                                    \ {first}]]
  /\ UNCHANGED <<protoVars, locks, send_with_ports_lock, apiVars>>

\* one turn of the loop of LostConnectionToNode, from port_guard(port->lock)
\* to the wait for the lock of the next port, or to the return
LostVisit(t) ==
  LET c == th[t] IN
  /\ c.pc = "visit"
  /\ CanStep(t)
  /\ Commit(LostVisitPort(World, c.node, c.port, c.node_name))
  /\ IF c.todo = {}
       THEN /\ ports_lock' = 0
            /\ th' = [th EXCEPT ![t] = Returned(c, "OK")]
       ELSE /\ ports_lock' = ports_lock
            /\ \E next \in c.todo :
                 th' = [th EXCEPT ![t] = [c EXCEPT !.port = next,
                                                   !.todo = @ \ {next}]]
  /\ UNCHANGED <<local_messages, is_delivering, locks, send_with_ports_lock,
                 sendUnused>>

ThreadLostLock == \E t \in DOMAIN th : LostLock(t)

ThreadLostVisit == \E t \in DOMAIN th : LostVisit(t)

\* the calls of SpecSend, or LostConnectionToNode(node 2), on either thread
InitLock ==
  /\ \E closed3 \in BOOLEAN :
       /\ ports = InitSendPorts(closed3)
       /\ held = [n \in Nodes |-> IF n = 1 THEN {1, 2, 3, 6, 10}
                                  ELSE (DOMAIN ports[n]) \ {9}]
  /\ chan = [c \in Nodes \X Nodes |-> <<>>]
  /\ local_messages = [n \in Nodes |-> <<>>]
  /\ is_delivering = [n \in Nodes |-> FALSE]
  /\ nextName = 12
  /\ sentCount = [e \in Ends |-> 0]
  /\ recv = [e \in Ends |-> <<>>]
  /\ erased = {}
  /\ closedEnds = {}
  /\ bufClosure = {}
  /\ nSends = 0
  /\ nTransfers = 0
  /\ aborted = {}
  /\ th \in [Threads -> Calls \cup {LostCall(2)}]
  /\ \E t \in Threads : th[t].kind = "lost"
  /\ locks = {}
  /\ send_with_ports_lock = 0
  /\ ports_lock = 0
  /\ last = NoCall
  /\ nCalls = 0

NextLock ==
  \/ ThreadLockPort
  \/ ThreadLockSendWithPorts
  \/ ThreadTakePort
  \/ ThreadUnlockAgain
  \/ ThreadEnqueueLocal
  \/ ThreadDrainStep
  \/ ThreadLostLock
  \/ ThreadLostVisit

SpecLock == InitLock /\ [][NextLock]_vars

----------------------------------------------------------------------------
(* The lock hierarchy (SpecLock)                                           *)

HoldsPortLock(t) == \E l \in locks : l[2] = t

\* the thread waits for send_with_ports_lock_, or for ports_lock_ in GetPort
RequestsNodeLock(t) == th[t].pc \in {"swp", "take"}

\* C21: locks are acquired in the order send_with_ports_lock, ports_lock,
\* port.lock, local_message_lock: no thread requests send_with_ports_lock or
\* ports_lock while it holds a port.lock; consequently no interleaving of
\* SendMessage, AcceptMessage and LostConnectionToNode deadlocks (while no
\* call has failed and the process has not crashed, a call that has not
\* returned can always go on).
C21_LockHierarchy ==
  /\ \A t \in Threads : RequestsNodeLock(t) => ~HoldsPortLock(t)
  /\ (aborted = {} /\ \A t \in Threads : ~th[t].failed) => ~Deadlocked

----------------------------------------------------------------------------
(* SpecRace: three threads of node 1 that call SendMessage on the two      *)
(* ends of the local pair (1, 2), with the steps of SpecSend.              *)

\* the messages carry nothing, one end of the pair, or port 6 and one end
RaceCalls ==
  {SendCall(pn, e) : pn \in {1, 2}, e \in {<<>>, <<1>>, <<6, 2>>}}

InitRace ==
  /\ ports = InitSendPorts(FALSE)
  /\ held = [n \in Nodes |-> IF n = 1 THEN {1, 2, 3, 6, 10}
                             ELSE (DOMAIN ports[n]) \ {9}]
  /\ chan = [c \in Nodes \X Nodes |-> <<>>]
  /\ local_messages = [n \in Nodes |-> <<>>]
  /\ is_delivering = [n \in Nodes |-> FALSE]
  /\ nextName = 12
  /\ sentCount = [e \in Ends |-> 0]
  /\ recv = [e \in Ends |-> <<>>]
  /\ erased = {}
  /\ closedEnds = {}
  /\ bufClosure = {}
  /\ nSends = 0
  /\ nTransfers = 0
  /\ aborted = {}
  /\ th \in [{1, 2, 3} -> RaceCalls]
  /\ locks = {}
  /\ send_with_ports_lock = 0
  /\ ports_lock = 0
  /\ last = NoCall
  /\ nCalls = 0

SpecRace == InitRace /\ [][NextSend]_vars

----------------------------------------------------------------------------
(* C22: sequence numbers of the accepted messages of a sending end         *)

\* the SendMessage calls on port p that WillSendMessage_Locked accepted (it
\* addresses the message to the peer only on its successful return)
SendsOn(p) ==
  {t \in DOMAIN th : /\ th[t].kind = "send" /\ th[t].port = p
                     /\ th[t].m.port_name # NoName}

\* the Receiving record that carries on the pipe end of port p of node 1:
\* port p itself or, once p was sent in a message (WillSendPort_Locked made
\* it point at the new port), the port AcceptPort made from its descriptor
Continues(p) ==
  LET port == ports[1][p]
      to == <<port.peer_node_name, port.peer_port_name>>
  IN IF port.state = "Receiving" THEN {<<1, p>>}
     ELSE IF port.state = "Buffering"
       THEN {r \in Records : r = to /\ Rec(r).state = "Receiving"}
     ELSE {}

\* the call of thread t is inside WillSendMessage_Locked
InWillSend(t) == th[t].pc \in {"swp", "take", "unlock", "crashed"}

\* C22: when no SendMessage call is in progress on a sending end, the
\* sequence numbers stamped on the messages accepted on it are exactly
\* 1, 2, ..., k, each used once (none reused, none skipped, whatever sends
\* failed in between), and the record that now carries the end (the port
\* itself or the port accepted in its place after a transfer) will stamp
\* k + 1 next.
C22_StampsConsecutive ==
  \A p \in {th[t].port : t \in DOMAIN th} :
    (\A t \in DOMAIN th : th[t].port = p => ~InWillSend(t)) =>
      /\ \A t, u \in SendsOn(p) :
           th[t].m.sequence_num = th[u].m.sequence_num => t = u
      /\ {th[t].m.sequence_num : t \in SendsOn(p)}
           = 1 .. Cardinality(SendsOn(p))
      /\ \A r \in Continues(p) :
           Rec(r).next_sequence_num_to_send = Cardinality(SendsOn(p)) + 1

----------------------------------------------------------------------------
(* SpecChain: SpecFair with a data-pipe port sent on again by the node     *)
(* that accepted it, so that proxies of the same pipe end follow each      *)
(* other.                                                                  *)

MaxHops == 2

ChainSend == \E n \in Nodes : \E pn \in held[n] :
               \E embed \in {<<>>} \cup {<<q>> : q \in held[n]} :
                 SendMessageUpTo(n, pn, embed, MaxHops)

NextChain == ChainSend \/ Delivery \/ Read

SpecChain ==
  /\ Init
  /\ [][NextChain]_vars
  /\ \A c \in Nodes \X Nodes :
       \/ []<>~DeliverEnabled(c[1], c[2])
       \/ []<><<Deliver(c[1], c[2])>>_vars
  /\ WF_vars(Read)

----------------------------------------------------------------------------
(* C23: a chain of proxies collapses                                       *)

\* a port made by AcceptPort was itself sent in a message: its pipe end has
\* been transferred twice in succession
Chained ==
  \E r \in Records : r[2] >= 5 /\ Rec(r).state \in {"Buffering", "Proxying"}

\* the Receiving ports of the data pipe name each other as peers
Joined ==
  \A r \in Records :
    (Rec(r).state = "Receiving" /\ Rec(r).end \in DataEnds) =>
      LET to == <<Rec(r).peer_node_name, Rec(r).peer_port_name>> IN
      /\ to \in Records
      /\ Rec(to).state = "Receiving"
      /\ Rec(to).end = PeerEnd(Rec(r).end)

\* C23: when a pipe end is transferred over two hops in succession, under
\* fair event delivery the ObserveProxy / ObserveProxyAck exchange comes to
\* an end: from some point on no Buffering or Proxying record is left and the
\* remaining Receiving ends of the pipe point directly at each other.
C23_ChainCollapses == <>Chained => <>[](NoProxyLeft /\ Joined)

----------------------------------------------------------------------------
(* C24: a port made by AcceptPort is silent until its carrier is read      *)

\* the ports for which the observed call raised PortStatusChanged although
\* the call found them not signalable (set_signalable(false) in AcceptPort,
\* the carrier message not yet returned by GetMessage)
SilentNotified ==
  {x \in last.notify :
     /\ x[2] \in DOMAIN last.pre.ports[x[1]]
     /\ ~last.pre.ports[x[1]][x[2]].message_queue.signalable}

\* C24: no event raises PortStatusChanged for a port made by AcceptPort
\* before the message that carried it has been returned by GetMessage: the
\* delivery of a user message, the delivery of ObserveClosure and
\* LostConnectionToNode raise no notification for a port they find not
\* signalable.
C24_FreshPortSilent ==
  last.op \in {"AcceptMessage", "ObserveClosure", "LostConnectionToNode"} =>
    SilentNotified = {}

----------------------------------------------------------------------------
(* SpecChainLost: the steps of SpecChain, and the loss of the other node   *)

NextChainLost == ChainSend \/ Delivery \/ Read \/ ApiLost

SpecChainLost == Init /\ [][NextChainLost]_vars

----------------------------------------------------------------------------
(* C25: the message kept in send_on_proxy_removal                          *)

\* the messages a step adds to channel c (a delivery takes the head off)
Appended(c) ==
  IF /\ Len(chan'[c]) >= Len(chan[c])
     /\ SubSeq(chan'[c], 1, Len(chan[c])) = chan[c]
    THEN SubSeq(chan'[c], Len(chan[c]) + 1, Len(chan'[c]))
    ELSE SubSeq(chan'[c], Len(chan[c]), Len(chan'[c]))

Times(sq, m) == Cardinality({i \in 1 .. Len(sq) : sq[i] = m})

\* the ports of node n that keep a message in send_on_proxy_removal
Deferring(n) ==
  {pn \in DOMAIN ports[n] : ports[n][pn].send_on_proxy_removal # <<>>}

\* how often a step forwards the message that port pn of node n keeps
Forwarded(n, pn) ==
  Times(Appended(<<n, ports[n][pn].send_on_proxy_removal[1]>>),
        ports[n][pn].send_on_proxy_removal[2])

\* C25: the message kept in a port's send_on_proxy_removal is forwarded
\* exactly once, by the step that erases the port's record, and by no step
\* that leaves the record in the map: it is not sent early, not sent twice
\* and not lost when the record is erased.
C25_DeferredSentAtErasure ==
  [][\A n \in Nodes : \A pn \in Deferring(n) :
       Forwarded(n, pn) = IF pn \in DOMAIN ports'[n] THEN 0 ELSE 1]_vars

\* C25, amended: the message is forwarded exactly once by the step in which
\* MaybeRemoveProxy_Locked erases the record and by no other step;
\* LostConnectionToNode erases the record without forwarding the message
\* (which is addressed to the node that is gone).
C25_DeferredSentUnlessLost ==
  [][\A n \in Nodes : \A pn \in Deferring(n) :
       Forwarded(n, pn) =
         IF pn \in DOMAIN ports'[n] \/ nCalls' # nCalls THEN 0 ELSE 1]_vars

\* MaybeRemoveProxy_Locked has erased a proxy that kept a message, and
\* LostConnectionToNode has been called
C25_Witness ==
  /\ \E e \in erased : e.port.send_on_proxy_removal # <<>>
  /\ nCalls > 0

----------------------------------------------------------------------------
(* C26: what the port maps hold when everything has been delivered         *)

\* every event has been delivered, every queued message has been read and
\* no node has crashed: unless the embedder makes another call, the port
\* maps stay as they are
Settled ==
  /\ Unobserved
  /\ Quiescent
  /\ aborted = {}
  /\ \A r \in Records : /\ Rec(r).message_queue.heap = <<>>
                        /\ Rec(r).outgoing_messages = <<>>

\* the records that are not a port the embedder holds
Leftover ==
  {r \in Records : \/ Rec(r).state \notin {"Receiving", "Uninitialized"}
                   \/ r[2] \notin held[r[1]]}

\* C26: once the embedder's calls have stopped and every message and event
\* in flight has been delivered (and read), every port map holds only ports
\* the embedder still holds: no Buffering or Proxying record and no record
\* without a holder is left, whatever was closed before.
C26_OnlyHeldPortsRemain == Settled => Leftover = {}

----------------------------------------------------------------------------
(* C27: GetStatus, SetUserData and GetUserData                             *)

\* SetUserData and GetUserData refuse a Closed port and succeed on any
\* other, and GetUserData then returns what SetUserData stored
UserDataContract ==
  IF last.target.state = "Closed"
    THEN /\ last.m.set.rv = "ERROR_PORT_STATE_UNEXPECTED"
         /\ last.m.get.rv = "ERROR_PORT_STATE_UNEXPECTED"
    ELSE /\ last.m.set.rv = "OK"
         /\ last.m.get.rv = "OK"
         /\ last.m.get.user_data = last.m.user_data

\* C27: GetStatus, SetUserData and GetUserData return PortStateUnexpected
\* on a Closed port and succeed in every other state (Uninitialized,
\* Receiving, Buffering, Proxying); GetUserData after SetUserData returns the
\* stored value.
C27_InspectionsRefuseClosedOnly ==
  last.op = "Inspect" =>
    /\ last.m.status.rv = IF last.target.state = "Closed"
                            THEN "ERROR_PORT_STATE_UNEXPECTED" ELSE "OK"
    /\ UserDataContract

\* C27, amended: GetStatus succeeds on a Receiving port only and returns
\* PortStateUnexpected in every other state (Uninitialized, Buffering,
\* Proxying, Closed); SetUserData and GetUserData return PortStateUnexpected
\* on a Closed port and succeed in every other state, and GetUserData after
\* SetUserData returns the stored value.
C27_InspectionsContract ==
  last.op = "Inspect" =>
    /\ last.m.status.rv = IF last.target.state = "Receiving"
                            THEN "OK" ELSE "ERROR_PORT_STATE_UNEXPECTED"
    /\ UserDataContract

\* the three calls were observed on a Proxying port
C27_Witness ==
  /\ last.op = "Inspect"
  /\ last.target.state = "Proxying"
  /\ last.m.get.user_data = last.m.user_data

-----------------------------------------------------------------------------
(* C28: the states a port record goes through                              *)

\* the changes of Port::state the specification lists
StateChanges ==
  {<<"Uninitialized", "Receiving">>, <<"Receiving", "Buffering">>,
   <<"Buffering", "Proxying">>, <<"Receiving", "Closed">>}

\* the records of node n this step erases
ErasedNow(n) == (DOMAIN ports[n]) \ (DOMAIN ports'[n])

\* the state record pn of node n is erased from: ClosePort marks a Receiving
\* record Closed and erases it in the same call, and OnPortAccepted may turn
\* a Buffering record into a proxy and remove it in the same call
ErasedFrom(n, pn) ==
  IF /\ ports[n][pn].state = "Receiving"
     /\ ports[n][pn].end \in closedEnds' \ closedEnds
    THEN "Closed"
    ELSE IF \E e \in erased' \ erased : e.node = n /\ e.name = pn
           THEN (CHOOSE e \in erased' \ erased :
                   e.node = n /\ e.name = pn).port.state
           ELSE ports[n][pn].state

\* every record that stays in the map keeps its state or makes a listed change
ListedChanges ==
  \A n \in Nodes : \A pn \in (DOMAIN ports[n]) \cap (DOMAIN ports'[n]) :
    \/ ports'[n][pn].state = ports[n][pn].state
    \/ <<ports[n][pn].state, ports'[n][pn].state>> \in StateChanges

\* a port_ref found Closed by the observed call is not back in the map
ClosedStaysClosed ==
  (last.op \in {"ClosePort", "SendMessage"} /\ last.target.state = "Closed") =>
    last.port \notin DOMAIN ports[last.node]

\* this step is LostConnectionToNode(node_name) on node n
LostNow(n, node_name) ==
  /\ nCalls' # nCalls \/ last'.op = "LostConnectionToNode"
  /\ \A q \in DOMAIN ports'[n] :
       ports'[n][q].peer_node_name = node_name =>
         ports'[n][q].state = "Receiving" /\ ports'[n][q].peer_closed

\* C28: every change of a record's state is Uninitialized -> Receiving,
\* Receiving -> Buffering, Buffering -> Proxying or Receiving -> Closed; a
\* record is erased from the port map only from state Proxying or Closed, and
\* a Closed record never changes state again.
C28_StateMachine ==
  [][/\ ListedChanges
     /\ \A n \in Nodes : \A pn \in ErasedNow(n) :
          ErasedFrom(n, pn) \in {"Proxying", "Closed"}
     /\ ClosedStaysClosed']_vars

\* C28, amended: the same changes of state; a record is erased from the port
\* map from state Proxying or Closed, or from state Buffering by
\* LostConnectionToNode when its peer is on the node that was lost; a Closed
\* record never changes state again.
C28_StateMachineUnlessLost ==
  [][/\ ListedChanges
     /\ \A n \in Nodes : \A pn \in ErasedNow(n) :
          \/ ErasedFrom(n, pn) \in {"Proxying", "Closed"}
          \/ /\ ErasedFrom(n, pn) = "Buffering"
             /\ LostNow(n, ports[n][pn].peer_node_name)
     /\ ClosedStaysClosed']_vars

\* LostConnectionToNode was observed to erase a Buffering record and to keep
\* a Receiving one
C28_Witness ==
  /\ last.op = "LostConnectionToNode"
  /\ \E pn \in DOMAIN last.pre.ports[last.node] :
       /\ last.pre.ports[last.node][pn].state = "Buffering"
       /\ pn \notin DOMAIN ports[last.node]
  /\ \E pn \in DOMAIN ports[last.node] :
       ports[last.node][pn].peer_node_name = last.node_name

-----------------------------------------------------------------------------
(* C29: the local queue of a node and the call that flushes it              *)

\* the calls of node n that are in the loop that flushes local_messages_
Drainers(n) == {t \in DOMAIN th : th[t].node = n /\ th[t].pc = "drain"}

\* the calls of node n that take their turn in local_message_lock_ now
Enqueuers(n) ==
  {t \in DOMAIN th : th[t].node = n /\ th[t].pc = "local" /\ th'[t] # th[t]}

\* at most one call flushes the queue, under is_delivering_local_messages_
OneDrainer ==
  \A n \in Nodes :
    /\ Cardinality(Drainers(n)) <= 1
    /\ Drainers(n) # {} => is_delivering[n]

\* a SendMessage to a local peer appends its message and delivers nothing;
\* it returns OK at once when a call is flushing the queue and becomes the
\* flushing call otherwise
AppendsOnly(n) ==
  \A t \in Enqueuers(n) :
    /\ local_messages'[n] = Append(local_messages[n], th[t].m)
    /\ ports' = ports /\ chan' = chan
    /\ IF Drainers(n) # {}
         THEN th'[t].pc = "done" /\ th'[t].rv = "OK"
         ELSE th'[t].pc \in {"drain", "done"}

\* the queue changes at its two ends only: a message leaves at the front,
\* taken by the flushing call and passed to AcceptMessage, and a message
\* arrives at the back
FirstInFirstOut(n) ==
  \/ local_messages'[n] = local_messages[n]
  \/ Enqueuers(n) # {}
  \/ /\ local_messages[n] # <<>>
     /\ local_messages'[n] = Tail(local_messages[n])
     /\ Drainers(n) # {}
     /\ ports' = AcceptMessage(World, n, Head(local_messages[n])).ports
     /\ chan' = AcceptMessage(World, n, Head(local_messages[n])).chan

\* C29: a SendMessage whose peer is on the same node never delivers inline
\* from a re-entrant call: at most one thread is flushing the local queue, a
\* SendMessage issued while the queue is being flushed only appends to it and
\* returns, and the messages are passed to AcceptMessage in the order they
\* were appended.
C29_LocalQueue ==
  [][/\ OneDrainer /\ OneDrainer'
     /\ \A n \in Nodes : AppendsOnly(n) /\ FirstInFirstOut(n)]_vars

\* a call has returned OK with its message still queued behind another while
\* a different call is flushing the queue
C29_Witness ==
  \E n \in Nodes : \E t \in Drainers(n) : \E u \in DOMAIN th :
    /\ u # t
    /\ th[u].pc = "done" /\ th[u].rv = "OK"
    /\ Len(local_messages[n]) >= 2
    /\ local_messages[n][Len(local_messages[n])] = th[u].m

-----------------------------------------------------------------------------
(* C30: user messages at a Buffering or Proxying port                      *)

\* the port the observed call or delivery found, when it is in the map
Found ==
  IF last.op \in {"UserMessage", "GetMessage"}
    THEN IF last.port \in DOMAIN last.pre.ports[last.node]
           THEN last.pre.ports[last.node][last.port] ELSE NoCall
    ELSE NoCall

\* an observed user message found its port in one of the given states
ArrivedAt(states) ==
  last.op = "UserMessage" /\ Found # NoCall /\ Found.state \in states

\* the user message delivered to a Buffering port is in the queue of the
\* port, which forwarded nothing
Parked ==
  /\ last.port \in DOMAIN ports[last.node]
  /\ LET port == ports[last.node][last.port] IN
       /\ port.state = "Buffering"
       /\ Len(port.message_queue.heap) = Len(Found.message_queue.heap) + 1
       /\ SeqToSet(port.message_queue.heap) =
            SeqToSet(Found.message_queue.heap) \cup {last.m}
       /\ port.message_queue.next_sequence_num =
            Found.message_queue.next_sequence_num
       /\ port.qfwd = Found.qfwd
  /\ chan = last.pre.chan

\* a record that is Buffering before and after a step has lost no message of
\* its queue and has forwarded none
StaysParked ==
  \A n \in Nodes : \A pn \in (DOMAIN ports[n]) \cap (DOMAIN ports'[n]) :
    (ports[n][pn].state = "Buffering" /\ ports'[n][pn].state = "Buffering") =>
      /\ SeqToSet(ports[n][pn].message_queue.heap)
           \subseteq SeqToSet(ports'[n][pn].message_queue.heap)
      /\ ports'[n][pn].message_queue.next_sequence_num =
           ports[n][pn].message_queue.next_sequence_num
      /\ ports'[n][pn].qfwd = ports[n][pn].qfwd

\* what C30 says of the observed call or delivery
ObservedParking ==
  /\ ArrivedAt({"Buffering", "Proxying"}) =>
       <<last.node, last.port>> \notin last.notify
  /\ (last.op = "GetMessage" /\ last.target.state \in {"Buffering", "Proxying"})
       => /\ last.rv = "ERROR_PORT_STATE_UNEXPECTED"
          /\ NothingChanged
  /\ ArrivedAt({"Buffering"}) => Parked

\* C30: a user message arriving at a Buffering or Proxying port raises no
\* PortStatusChanged for that port, and GetMessage on such a port returns
\* PortStateUnexpected without removing any message from its queue; at a
\* Buffering port arriving messages stay parked and none is forwarded until
\* PortAccepted is processed.
C30_ProxiesSurfaceNothing == [][ObservedParking' /\ StaysParked]_vars

\* a user message was delivered to a Buffering port and is parked there
C30_Witness ==
  /\ ArrivedAt({"Buffering"})
  /\ last.port \in DOMAIN ports[last.node]
  /\ last.m \in SeqToSet(ports[last.node][last.port].message_queue.heap)

----------------------------------------------------------------------------
(* Contracts of the event handlers, read off the observed event            *)
(* (SpecEvents, SpecLocal)                                                 *)

\* the messages at the head of a queue that are in sequence from the cursor
\* on: the ones that can be taken out one after the other
RECURSIVE InOrder(_, _)
InOrder(heap, next) ==
  IF heap = <<>> THEN <<>>
  ELSE IF Head(heap).sequence_num # next THEN <<>>
  ELSE <<Head(heap)>> \o InOrder(Tail(heap), next + 1)

\* what the node of the observed event has sent to node `to` in handling it
SentBy(to) ==
  SubSeq(chan[<<last.node, to>>],
         Len(last.pre.chan[<<last.node, to>>]) + 1,
         Len(chan[<<last.node, to>>]))

\* the observed event touched no port but its own and no channel except by
\* sending from its node
OnlyOwnPort ==
  /\ OtherPorts(ports[last.node]) = OtherPorts(last.pre.ports[last.node])
  /\ \A n \in Nodes \ {last.node} : ports[n] = last.pre.ports[n]
  /\ \A c \in DOMAIN chan :
       IF c[1] = last.node
         THEN /\ Len(chan[c]) >= Len(last.pre.chan[c])
              /\ SubSeq(chan[c], 1, Len(last.pre.chan[c])) = last.pre.chan[c]
         ELSE chan[c] = last.pre.chan[c]
  /\ local_messages = last.pre.local_messages

\* the ObserveProxy event by which port pn of node n, with the peer of
\* record port, asks to be bypassed
ObserveProxyOf(n, pn, port) ==
  NewInternalMessage(port.peer_port_name, "ObserveProxy", 0,
    [proxy_node_name |-> n, proxy_port_name |-> pn,
     proxy_to_node_name |-> port.peer_node_name,
     proxy_to_port_name |-> port.peer_port_name])

\* C31: PortAccepted handled at a Buffering port makes the port Proxying,
\* forwards the in-order messages of its queue to the peer in sequence
\* order, and then sends one ObserveProxy (proxy: this port, proxy_to: its
\* peer) to the peer, unless an earlier ObserveClosure armed the removal:
\* then no ObserveProxy is sent and the record is erased if the last
\* expected message has gone through. At a port in any other state the
\* handler returns an error and changes no port and sends nothing.
C31_PortAcceptedContract ==
  (last.op = "PortAccepted" /\ last.target # <<>>) =>
    LET n == last.node
        pn == last.port
        port == last.target
        ready == InOrder(port.message_queue.heap,
                         port.message_queue.next_sequence_num)
        forwarded == [i \in 1 .. Len(ready) |->
                        [ready[i] EXCEPT !.port_name = port.peer_port_name]]
        armed == port.remove_proxy_on_last_message
        done == port.last_sequence_num_to_receive =
                  port.message_queue.next_sequence_num + Len(ready) - 1
        kept == port.send_on_proxy_removal
    IN IF port.state = "Buffering"
         THEN /\ last.rv = "OK"
              /\ OnlyOwnPort
              /\ \A to \in Nodes :
                   SentBy(to) =
                     (IF to = port.peer_node_name
                        THEN forwarded \o
                             (IF armed THEN <<>>
                              ELSE <<ObserveProxyOf(n, pn, port)>>)
                        ELSE <<>>)
                     \o (IF armed /\ done /\ kept # <<>> /\ kept[1] = to
                           THEN <<kept[2]>> ELSE <<>>)
              /\ IF armed /\ done
                   THEN pn \notin DOMAIN ports[n]
                   ELSE /\ pn \in DOMAIN ports[n]
                        /\ ports[n][pn] =
                             [port EXCEPT
                                !.state = "Proxying",
                                !.message_queue.heap =
                                   SubSeq(@, Len(ready) + 1, Len(@)),
                                !.message_queue.next_sequence_num =
                                   @ + Len(ready),
                                !.qfwd = @ + Len(ready)]
         ELSE /\ last.rv = "ERROR_PORT_STATE_UNEXPECTED"
              /\ NothingChanged

\* PortAccepted was handled at a Buffering port that had observed the
\* closure of its peer and held the two messages the peer had sent in its
\* queue: they were forwarded and the record erased
C31_Witness ==
  /\ last.op = "PortAccepted"
  /\ last.target # <<>>
  /\ last.target.state = "Buffering"
  /\ last.target.remove_proxy_on_last_message
  /\ Len(last.target.message_queue.heap) = 2
  /\ last.port \notin DOMAIN ports[last.node]
  /\ \E to \in Nodes : SentBy(to) # <<>>

\* the observed ObserveProxy names the peer of the port it was handed to
NamesPeer ==
  /\ last.target.peer_node_name = last.m.event.proxy_node_name
  /\ last.target.peer_port_name = last.m.event.proxy_port_name

\* C32: ObserveProxy(proxy, proxy_to) handled at a Receiving port whose peer
\* is proxy rewrites the peer of the port to proxy_to and sends one
\* ObserveProxyAck to the proxy that carries next_sequence_num_to_send - 1,
\* the counter being left as it is: what the port stamped so far was
\* addressed to the proxy, what it stamps from now on goes to proxy_to. At a
\* port whose peer is not proxy the event is forwarded with the same event
\* data to the peer of the port and the record is unchanged. At an unknown
\* port the event is dropped: nothing is changed or sent.
C32_ObserveProxyContract ==
  last.op = "ObserveProxy" =>
    LET n == last.node
        pn == last.port
        port == last.target
        event == last.m.event
    IN /\ last.rv = "OK"
       /\ IF port = <<>> THEN NothingChanged
          ELSE IF ~NamesPeer
            THEN /\ OnlyOwnPort
                 /\ ports[n][pn] = port
                 /\ \A to \in Nodes :
                      SentBy(to) =
                        IF to = port.peer_node_name
                          THEN <<[last.m EXCEPT
                                    !.port_name = port.peer_port_name]>>
                          ELSE <<>>
          ELSE port.state = "Receiving" =>
                 /\ OnlyOwnPort
                 /\ ports[n][pn] =
                      [port EXCEPT
                         !.peer_node_name = event.proxy_to_node_name,
                         !.peer_port_name = event.proxy_to_port_name]
                 /\ \A to \in Nodes :
                      SentBy(to) =
                        IF to = event.proxy_node_name
                          THEN <<NewInternalMessage(
                                   event.proxy_port_name, "ObserveProxyAck",
                                   port.next_sequence_num_to_send - 1,
                                   NoEvent)>>
                          ELSE <<>>

\* ObserveProxy was handled at a Receiving port that had sent two messages to
\* the proxy, a Proxying record of the other node
C32_Witness ==
  /\ last.op = "ObserveProxy"
  /\ last.target # <<>>
  /\ last.target.state = "Receiving"
  /\ NamesPeer
  /\ last.target.next_sequence_num_to_send = 3
  /\ last.target.peer_port_name
       \in DOMAIN last.pre.ports[last.target.peer_node_name]
  /\ last.pre.ports[last.target.peer_node_name]
                   [last.target.peer_port_name].state = "Proxying"
  /\ ports[last.node][last.port].peer_port_name
       = last.m.event.proxy_to_port_name

\* no proxy has missed its removal: a Proxying record whose removal is armed
\* still waits for a message
NoRemovalMissed ==
  \A r \in Records :
    (Rec(r).state = "Proxying" /\ Rec(r).remove_proxy_on_last_message) =>
      CanAcceptMoreMessages(Rec(r))

\* no proxy was removed twice: a name was erased once, and is not in the map
RemovedOnce ==
  \A e \in erased :
    /\ e.name \notin DOMAIN ports[e.node]
    /\ \A f \in erased : (f.node = e.node /\ f.name = e.name) => f = e

\* C33: ObserveProxyAck handled at a Proxying port with a valid
\* last_sequence_num arms remove_proxy_on_last_message, sets
\* last_sequence_num_to_receive and evaluates MaybeRemoveProxy in the same
\* step (the record is erased, and the message it kept is sent, if the last
\* expected message has been forwarded already); with the sentinel it leaves
\* the record as it is and sends exactly one ObserveProxy. Whether the last
\* user message is forwarded before or after the acknowledgement is handled,
\* no Proxying record is left armed with nothing more to wait for, and no
\* record is erased twice.
C33_ObserveProxyAckContract ==
  /\ NoRemovalMissed
  /\ RemovedOnce
  /\ (/\ last.op = "ObserveProxyAck"
      /\ last.target # <<>>
      /\ IF last.target # <<>> THEN last.target.state = "Proxying"
         ELSE FALSE) =>
       LET n == last.node
           pn == last.port
           port == last.target
           lsn == last.m.last_sequence_num
           kept == port.send_on_proxy_removal
           done == lsn = port.message_queue.next_sequence_num - 1
       IN /\ last.rv = "OK"
          /\ OnlyOwnPort
          /\ IF lsn = kInvalidSequenceNum
               THEN /\ ports[n][pn] = port
                    /\ \A to \in Nodes :
                         SentBy(to) =
                           IF to = port.peer_node_name
                             THEN <<ObserveProxyOf(n, pn, port)>>
                             ELSE <<>>
               ELSE /\ IF done THEN pn \notin DOMAIN ports[n]
                       ELSE /\ pn \in DOMAIN ports[n]
                            /\ ports[n][pn] =
                                 [port EXCEPT
                                    !.remove_proxy_on_last_message = TRUE,
                                    !.last_sequence_num_to_receive = lsn]
                    /\ \A to \in Nodes :
                         SentBy(to) =
                           IF done /\ kept # <<>> /\ kept[1] = to
                             THEN <<kept[2]>> ELSE <<>>

\* ObserveProxyAck has armed the removal of a proxy whose last message is
\* still in the local queue of the node: the acknowledgement overtook the
\* message, and the proxy waits for it
C33_Witness ==
  \E r \in Records :
    /\ Rec(r).state = "Proxying"
    /\ Rec(r).remove_proxy_on_last_message
    /\ ~Rec(r).peer_closed
    /\ Rec(r).last_sequence_num_to_receive >= 1
    /\ \E i \in 1 .. Len(local_messages[r[1]]) :
         /\ local_messages[r[1]][i].port_name = r[2]
         /\ local_messages[r[1]][i].sequence_num =
              Rec(r).last_sequence_num_to_receive

\* C34: ObserveClosure handled at a Proxying port makes its
\* last_sequence_num the last number the proxy expects, arms the removal,
\* and forwards one ObserveClosure with the same last_sequence_num to the
\* peer the proxy had when the event arrived. The record is erased in the
\* same step if every message up to that number has been forwarded, and is
\* kept (armed) otherwise; a record erased after the closure has its cursor
\* right behind the last number and no message up to that number in its
\* queue.
C34_ObserveClosureAtProxy ==
  /\ \A e \in erased :
       e.port.peer_closed =>
         /\ e.port.message_queue.next_sequence_num =
              e.port.last_sequence_num_to_receive + 1
         /\ \A i \in 1 .. Len(e.port.message_queue.heap) :
              e.port.message_queue.heap[i].sequence_num >
                e.port.last_sequence_num_to_receive
  /\ (/\ last.op = "ObserveClosure"
      /\ last.target # <<>>
      /\ IF last.target # <<>> THEN last.target.state = "Proxying"
         ELSE FALSE) =>
       LET n == last.node
           pn == last.port
           port == last.target
           lsn == last.m.last_sequence_num
           kept == port.send_on_proxy_removal
           done == lsn = port.message_queue.next_sequence_num - 1
           closure == NewInternalMessage(port.peer_port_name,
                                         "ObserveClosure", lsn, NoEvent)
       IN /\ last.rv = "OK"
          /\ last.notify = {}
          /\ OnlyOwnPort
          /\ IF done THEN pn \notin DOMAIN ports[n]
             ELSE /\ pn \in DOMAIN ports[n]
                  /\ ports[n][pn] =
                       [port EXCEPT
                          !.peer_closed = TRUE,
                          !.remove_proxy_on_last_message = TRUE,
                          !.last_sequence_num_to_receive = lsn,
                          !.closure_first = port.message_queue.next_sequence_num,
                          !.closure_read = port.qread]
          /\ \A to \in Nodes :
               SentBy(to) =
                 (IF done /\ kept # <<>> /\ kept[1] = to
                    THEN <<kept[2]>> ELSE <<>>)
                 \o (IF to = port.peer_node_name THEN <<closure>> ELSE <<>>)

\* ObserveClosure was handled at a proxy that had forwarded the two messages
\* its closed peer had sent: the proxy was erased and the event forwarded
C34_Witness ==
  /\ last.op = "ObserveClosure"
  /\ last.target # <<>>
  /\ last.target.state = "Proxying"
  /\ last.target.qfwd = 2
  /\ last.m.last_sequence_num = 2
  /\ last.port \notin DOMAIN ports[last.node]
  /\ \E to \in Nodes : \E i \in 1 .. Len(SentBy(to)) :
       SentBy(to)[i].type = "ObserveClosure"

----------------------------------------------------------------------------
(* SpecQueue: the MessageQueue of one port (port 1 of node 1) under any    *)
(* arrival order. Init draws the constructor's cursor and the signalable   *)
(* flag; the messages carry distinct 64-bit sequence numbers on both sides *)
(* of the 32-bit boundary, scaled to SeqModulus.                           *)

QueueStarts == {kInitialSequenceNum, SeqModulus - 2}

QueueNums == {1, 2, 3, SeqModulus - 2, SeqModulus - 1, SeqModulus}

QueueUnderTest == ports[1][1].message_queue

\* the sequence numbers that arrived so far: queued or handed out
QueueArrived ==
  {QueueUnderTest.heap[i].sequence_num : i \in DOMAIN QueueUnderTest.heap}
    \cup {recv[1][i][2] : i \in DOMAIN recv[1]}

InitQueue ==
  /\ \E start \in QueueStarts, signalable \in BOOLEAN :
       ports = [n \in Nodes |->
         IF n = 1
           THEN (1 :> [InitPort(2, 2, 1) EXCEPT
                         !.message_queue =
                           [MessageQueue(start) EXCEPT
                              !.signalable = signalable]])
                @@ (3 :> InitPort(2, 4, 3))
           ELSE (2 :> InitPort(1, 1, 2)) @@ (4 :> InitPort(1, 3, 4))]
  /\ chan = [c \in Nodes \X Nodes |-> <<>>]
  /\ local_messages = [n \in Nodes |-> <<>>]
  /\ is_delivering = [n \in Nodes |-> FALSE]
  /\ nextName = 5
  /\ held = [n \in Nodes |-> IF n = 1 THEN {1, 3} ELSE {2, 4}]
  /\ sentCount = [e \in Ends |-> 0]
  /\ recv = [e \in Ends |-> <<>>]
  /\ erased = {}
  /\ closedEnds = {}
  /\ bufClosure = {}
  /\ nSends = 0
  /\ nTransfers = 0
  /\ aborted = {}
  /\ ThreadsIdle
  /\ last = NoCall
  /\ nCalls = 0

queueVars == <<chan, local_messages, is_delivering, nextName, held,
               sentCount, erased, closedEnds, bufClosure, nSends,
               nTransfers, aborted, th, locks, send_with_ports_lock,
               ports_lock, nCalls>>

\* MessageQueue::AcceptMessage with a message that did not arrive before
QueueArrive ==
  \E num \in QueueNums \ QueueArrived :
    LET m == [Message0 EXCEPT !.port_name = 1, !.sequence_num = num,
                              !.payload = <<2, num>>]
        r == QueueAcceptMessage(QueueUnderTest, m)
    IN /\ ports' = [ports EXCEPT ![1][1].message_queue = r[1]]
       /\ last' = [op |-> "QueueAcceptMessage", pre |-> QueueUnderTest,
                   select |-> "null", m |-> m, has_next_message |-> r[2]]
       /\ UNCHANGED <<recv, queueVars>>

\* MessageQueue::GetNextMessageIf with no selector, or with one that accepts
\* or rejects heap_[0]; the cursor stays below the 32-bit boundary
QueueTake ==
  \E select \in {"null", "accept", "reject"} :
    LET r == GetNextMessageIfSelect(QueueUnderTest, select) IN
    /\ QueueUnderTest.next_sequence_num + 1 < SeqModulus
    /\ ports' = [ports EXCEPT ![1][1].message_queue = r[1]]
    /\ recv' = IF r[2] = <<>> THEN recv
               ELSE [recv EXCEPT ![1] = Append(@, r[2].payload)]
    /\ last' = [op |-> "GetNextMessageIf", pre |-> QueueUnderTest,
                select |-> select, m |-> r[2], has_next_message |-> FALSE]
    /\ UNCHANGED queueVars

\* MessageQueue::set_signalable(true), as Node::GetMessageIf does for a port
\* it hands to the embedder
QueueSetSignalable ==
  /\ ~QueueUnderTest.signalable
  /\ ports' = [ports EXCEPT ![1][1].message_queue.signalable = TRUE]
  /\ last' = NoCall
  /\ UNCHANGED <<recv, queueVars>>

NextQueue == QueueArrive \/ QueueTake \/ QueueSetSignalable

SpecQueue == InitQueue /\ [][NextQueue]_vars

----------------------------------------------------------------------------
(* The MessageQueue contract, read off the observed queue call (SpecQueue) *)

\* the 64-bit sequence numbers of the messages in a heap
QueuedNums(heap) == {heap[i].sequence_num : i \in DOMAIN heap}

\* the smallest queued number is the cursor
SmallestIsCursor(q) ==
  /\ q.next_sequence_num \in QueuedNums(q.heap)
  /\ \A num \in QueuedNums(q.heap) : q.next_sequence_num <= num

\* C35: for any arrival order of messages with distinct sequence numbers the
\* queue hands them out in consecutive order from its initial cursor:
\* GetNextMessageIf returns a message only when the smallest queued number is
\* the cursor, that message is the one numbered by the cursor and the cursor
\* then advances by exactly one; the message numbered by the cursor is handed
\* out whenever it is queued and the selector does not reject it; a rejected
\* or absent head leaves queue and cursor unchanged; AcceptMessage reports
\* has_next_message only when the queue is signalable and the smallest queued
\* number is the cursor.
C35_QueueHandsOutInOrder ==
  /\ last.op = "GetNextMessageIf" =>
       /\ last.m # <<>> =>
            /\ SmallestIsCursor(last.pre)
            /\ last.m.sequence_num = last.pre.next_sequence_num
            /\ QueueUnderTest.next_sequence_num =
                 last.pre.next_sequence_num + 1
            /\ QueuedNums(QueueUnderTest.heap) =
                 QueuedNums(last.pre.heap) \ {last.m.sequence_num}
       /\ last.m = <<>> => QueueUnderTest = last.pre
       /\ last.select = "reject" => last.m = <<>>
       /\ (SmallestIsCursor(last.pre) /\ last.select # "reject")
            => last.m # <<>>
  /\ last.op = "QueueAcceptMessage" =>
       (last.has_next_message =>
          /\ QueueUnderTest.signalable
          /\ SmallestIsCursor(QueueUnderTest))

\* the same contract for the messages numbered below the 32-bit boundary
C35_InOrderBelowBoundary ==
  (\A num \in QueueArrived : num < SeqModulus) => C35_QueueHandsOutInOrder

----------------------------------------------------------------------------
(* WillSendPort_Locked followed by AcceptPort (Spec)                       *)

\* port pn of node n taken for a message toward node to, and the descriptor
\* then accepted at node to
TakeThenAccept(n, pn, to) ==
  LET taken == WillSendPort_Locked(World, n, to, AllocMessage(<<pn>>, <<>>), 1)
      name == taken.m.ports[1]
      accepted == AcceptPort(taken.w, to, name, taken.m.descs[1])
  IN [name |-> name, w |-> accepted]

\* the relation of the accepted port to the port taken
AcceptedFrom(r, n, pn, to) ==
  LET old == ports[n][pn]
      new == r.w.ports[to][r.name]
      back == r.w.chan[<<to, n>>]
  IN /\ r.w.rv = "OK"
     /\ r.name # pn
     /\ r.name \notin DOMAIN ports[to]
     /\ new.state = "Receiving"
     /\ new.peer_node_name = old.peer_node_name
     /\ new.peer_port_name = old.peer_port_name
     /\ new.next_sequence_num_to_send = old.next_sequence_num_to_send
     /\ new.message_queue.next_sequence_num =
          old.message_queue.next_sequence_num
     /\ r.w.ports[n][pn].state = "Buffering"
     /\ r.w.ports[n][pn].peer_node_name = to
     /\ r.w.ports[n][pn].peer_port_name = r.name
     /\ Len(back) = Len(chan[<<to, n>>]) + 1
     /\ back[Len(back)].type = "PortAccepted"
     /\ back[Len(back)].port_name = pn

\* C36: a Receiving port P taken for a message toward node N and then
\* accepted from its descriptor gives a Receiving port P' under a fresh name,
\* with P's old peer, P's next_sequence_num_to_send and P's queue cursor; P is
\* Buffering with peer (N, P'), and the PortAccepted goes to P at P's node.
C36_TakeThenAcceptRelates ==
  \A n \in Nodes \ aborted : \A pn \in DOMAIN ports[n] : \A to \in Nodes :
    ports[n][pn].state = "Receiving"
      => AcceptedFrom(TakeThenAccept(n, pn, to), n, pn, to)

\* a transfer that ran: a port that sent and read messages was taken, its
\* descriptor travelled to the other node and was accepted there, and the
\* PortAccepted for it is on its way back
C36_Witness ==
  \E n \in Nodes : \E pn \in DOMAIN ports[n] :
    LET old == ports[n][pn] IN
    /\ old.state = "Buffering"
    /\ old.peer_node_name # n
    /\ old.peer_port_name \in DOMAIN ports[old.peer_node_name]
    /\ old.next_sequence_num_to_send > kInitialSequenceNum
    /\ old.message_queue.next_sequence_num > kInitialSequenceNum
    /\ LET new == ports[old.peer_node_name][old.peer_port_name] IN
         /\ new.state = "Receiving"
         /\ ~new.message_queue.signalable
         /\ new.next_sequence_num_to_send = old.next_sequence_num_to_send
         /\ new.message_queue.next_sequence_num =
              old.message_queue.next_sequence_num
    /\ \E i \in DOMAIN chan[<<old.peer_node_name, n>>] :
         /\ chan[<<old.peer_node_name, n>>][i].type = "PortAccepted"
         /\ chan[<<old.peer_node_name, n>>][i].port_name = pn

----------------------------------------------------------------------------
(* SpecClosing: a user message delivered on the IO thread while ClosePort, *)
(* on the embedder's thread, is between its port-lock section and          *)
(* ErasePort.                                                               *)

\* Node::ClosePort to the end of its port-lock section: the port is Closed
\* and still in the map
ClosePortMarked(w, n, pn) ==
  SetPort(w, n, pn, [w.ports[n][pn] EXCEPT !.state = "Closed"])

\* Node::ClosePort after its port-lock section: the ObserveClosure computed
\* in the lock section is sent and the port is erased
ClosePortErased(w, n, pn, port) ==
  [ErasePort(ForwardMessage(w, n, port.peer_node_name,
               NewInternalMessage(port.peer_port_name, "ObserveClosure",
                                  LastSequenceNumSent(port), NoEvent)),
             n, pn)
     EXCEPT !.closedEnds = @ \cup {port.end}]

\* the user message at the head of a channel is for a Receiving port the
\* embedder holds; ClosePort marks the port Closed, OnUserMessage runs, then
\* ClosePort erases the port. last.target is the record OnUserMessage left.
ObserveUserMessageAtClosed(from, to) ==
  /\ to \notin aborted
  /\ chan[<<from, to>>] # <<>>
  /\ IF chan[<<from, to>>] # <<>>
       THEN /\ Head(chan[<<from, to>>]).type = "User"
            /\ Head(chan[<<from, to>>]).port_name \in held[to]
            /\ ports[to][Head(chan[<<from, to>>]).port_name].state
                 = "Receiving"
       ELSE FALSE
  /\ LET m == Head(chan[<<from, to>>])
         pn == m.port_name
     IN \E marked \in {ClosePortMarked(Delivered(World, from, to), to, pn)} :
        \E w \in {OnUserMessage(marked, to, m)} :
          /\ Commit(ClosePortErased(w, to, pn, ports[to][pn]))
          /\ last' = [Call("UserMessageAtClosed", to, pn, w.ports[to][pn],
                           Snapshot(marked, local_messages))
                        EXCEPT !.m = m, !.rv = w.rv, !.notify = w.notify]
          /\ UNCHANGED <<local_messages, is_delivering, observeUnused>>

ObservedClosing ==
  /\ Unobserved
  /\ \E from \in Nodes : \E to \in Nodes : ObserveUserMessageAtClosed(from, to)

NextClosing ==
  \/ Unobserved /\ nSends + nTransfers < MaxEventSends /\ Send
  \/ ApiDelivery
  \/ ApiRead
  \/ ApiClose
  \/ ObservedClosing

SpecClosing == Init /\ [][NextClosing]_vars

----------------------------------------------------------------------------
(* A user message for a port that ClosePort has marked Closed (SpecClosing) *)

\* C37: a user message that reaches a port in state Closed, before ClosePort
\* erases it, is dropped: the port's queue is as it was, no status
\* notification is raised for the port, and no port embedded in the message
\* is left in the node's port map.
C37_ClosedPortDropsMessage ==
  last.op = "UserMessageAtClosed" =>
    /\ last.target.message_queue
         = last.pre.ports[last.node][last.port].message_queue
    /\ <<last.node, last.port>> \notin last.notify
    /\ \A i \in DOMAIN last.m.ports :
         last.m.ports[i] \notin DOMAIN ports[last.node]

\* the message reaches the Closed port with a port embedded in it
C37_Reached ==
  /\ last.op = "UserMessageAtClosed"
  /\ last.pre.ports[last.node][last.port].state = "Closed"
  /\ last.m.ports # <<>>

----------------------------------------------------------------------------
(* The acknowledgement of ObserveProxy by a Receiving port (SpecFair)      *)

\* an event of the given type is on its way to port r[2] of node r[1]
EventInFlight(type, r) ==
  \E c \in Nodes \X Nodes : \E i \in DOMAIN chan[c] :
    /\ c[2] = r[1]
    /\ chan[c][i].type = type
    /\ chan[c][i].port_name = r[2]

\* the Receiving end opposite proxy r took the proxy's ObserveProxy: it has
\* switched its peer to the port the proxy forwards to
SwitchedPast(r) ==
  \E q \in Records :
    /\ Rec(q).state = "Receiving"
    /\ Rec(q).end = PeerEnd(Rec(r).end)
    /\ Rec(q).peer_node_name = Rec(r).peer_node_name
    /\ Rec(q).peer_port_name = Rec(r).peer_port_name

\* a proxy that has received the ObserveProxyAck of the Receiving end that
\* switched past it has armed its removal
AckArmsRemoval ==
  \A r \in Records :
    (Rec(r).state = "Proxying" /\ SwitchedPast(r)
       /\ ~EventInFlight("ObserveProxyAck", r))
      => Rec(r).remove_proxy_on_last_message

ObserveProxyInFlight ==
  \E r \in Nodes \X (1 .. nextName) : EventInFlight("ObserveProxy", r)

\* C38: the ObserveProxyAck of a Receiving port that has just switched its
\* peer is never taken for the re-send sentinel: once it is delivered the
\* proxy has armed its removal, also when that port has sent no message
\* (next_sequence_num_to_send = 1), and from some point on no ObserveProxy
\* event travels between the Receiving ends.
C38_AckOfReceiverIsNoSentinel ==
  []AckArmsRemoval /\ <>[]~ObserveProxyInFlight

----------------------------------------------------------------------------
(* The flush of the local queue (SpecLocalFair)                            *)

\* a call is in the flush loop whenever the queue holds a message or
\* is_delivering_local_messages_ is set
FlushActive ==
  \A n \in Nodes :
    (local_messages[n] # <<>> \/ is_delivering[n]) => th[n] = "drain"

----------------------------------------------------------------------------
(* SendMessage with a port list it cannot take (SpecSendBad)               *)

\* the port list of the call names a port that is not in the node's map, or
\* names a port twice
BadList(c) ==
  \/ \E i \in DOMAIN c.embed : c.embed[i] \notin DOMAIN ports[c.node]
  \/ Cardinality(SeqToSet(c.embed)) < Len(c.embed)

\* the thread waits for a port lock that it holds itself
WaitsForOwnLock(t) ==
  /\ th[t].pc = "take"
  /\ <<th[t].m.ports[th[t].i], t>> \in locks

\* no other call sends on the port or names it in its list
OnlyCallOn(t, name) ==
  \A u \in Threads \ {t} :
    th[u].port # name /\ name \notin SeqToSet(th[u].embed)

\* C40: SendMessage with a port list that names a port unknown to the node,
\* or one port twice, returns: the call neither crashes nor waits for ever,
\* it returns an error code, the sending port's next_sequence_num_to_send is
\* what the call found, and the ports it names are Receiving with their
\* peers as before.
C40_BadListReturnsError ==
  \A t \in Threads :
    (th[t].kind = "send" /\ BadList(th[t])) =>
      /\ th[t].pc # "crashed"
      /\ ~WaitsForOwnLock(t)
      /\ th[t].pc = "done" =>
           /\ th[t].rv # "OK"
           /\ th[t].failed => th[t].post = th[t].pre
           /\ \A i \in DOMAIN th[t].embed :
                LET name == th[t].embed[i] IN
                (name \in DOMAIN ports[th[t].node] /\ OnlyCallOn(t, name)) =>
                  /\ ports[th[t].node][name].state = "Receiving"
                  /\ ports[th[t].node][name].peer_port_name
                       = InitSendPorts(FALSE)[th[t].node][name].peer_port_name

\* a call stopped at the null pointer of the port it could not find
C40_ReachedUnknown ==
  \E t \in Threads : th[t].pc = "crashed" /\ 8 \in SeqToSet(th[t].embed)

\* a call that waits for the lock it took at the first mention of the port
C40_ReachedTwice == \E t \in Threads : WaitsForOwnLock(t)

====
